---------------------------- MODULE Spec2Model ----------------------------
(***************************************************************************)
(* A model of freephil's parameter trees (src/src/freephil/common.py):     *)
(* definitions and scopes, lexical variable substitution, extract/format   *)
(* and the fetch/merge/diff algorithm.                                     *)
(*                                                                         *)
(* Strings are sequences of one-character strings, so that the prefix      *)
(* tests and the slicing the code does on dotted paths and on word values  *)
(* are modelled character by character.  Python's None is a sentinel of    *)
(* the type at hand (NoneS for a string, -1 for a primary_id, <<>> for a   *)
(* parent reference, the empty sequence for an optional object).           *)
(***************************************************************************)
EXTENDS Integers, Sequences, FiniteSets, TLC

VARIABLES
    master,   \* the master (schema) tree, as parse() built it
    sources,  \* the source trees handed to fetch, in list order
    env,      \* os.environ: a function from variable names to values
    op,       \* the operation applied last ("init" before any)
    args,     \* the arguments of that operation
    out       \* what the operation returned or raised

vars == <<master, sources, env, op, args, out>>

-----------------------------------------------------------------------------
(* Strings *)

NoneS == <<"<None>">>

Dot == <<".">>

StartsWith(s, p) == Len(p) <= Len(s) /\ SubSeq(s, 1, Len(p)) = p

\* Python's s[n:]
Drop(s, n) == SubSeq(s, n + 1, Len(s))

RECURSIVE Flatten(_)
Flatten(ss) == IF ss = <<>> THEN <<>> ELSE Head(ss) \o Flatten(Tail(ss))

\* sep.join(parts)
RECURSIVE JoinWith(_, _)
JoinWith(sep, parts) ==
    IF parts = <<>> THEN <<>>
    ELSE IF Len(parts) = 1 THEN parts[1]
    ELSE parts[1] \o sep \o JoinWith(sep, Tail(parts))

Reverse(s) == [i \in 1..Len(s) |-> s[Len(s) + 1 - i]]

Last(s) == s[Len(s)]

Letters == {"a", "b", "c", "s", "t", "x", "H", "O", "M", "E", "N", "o", "n", "e"}
Digits == {"1", "2", "3"}

standard_identifier_start_characters == Letters \cup {"_"}
standard_identifier_continuation_characters == Letters \cup Digits \cup {"_"}

\* converters.is_standard_identifier: identifier components separated by dots
RECURSIVE IsIdentTail(_, _)
IsIdentTail(s, atStart) ==
    IF s = <<>> THEN ~atStart
    ELSE IF atStart THEN Head(s) \in standard_identifier_start_characters
                         /\ IsIdentTail(Tail(s), FALSE)
    ELSE IF Head(s) = "." THEN IsIdentTail(Tail(s), TRUE)
    ELSE Head(s) \in standard_identifier_continuation_characters
         /\ IsIdentTail(Tail(s), FALSE)

is_standard_identifier(s) == IsIdentTail(s, TRUE)

\* is_reserved_identifier(string)
is_reserved_identifier(s) ==
    IF Len(s) < 5 THEN FALSE
    ELSE StartsWith(s, <<"_", "_">>) /\ SubSeq(s, Len(s) - 1, Len(s)) = <<"_", "_">>

-----------------------------------------------------------------------------
(* Words: tokenizer.word, a value and a quote token ("" for None) *)

Word(v, q) == [value |-> v, quote_token |-> q]

Unquoted(v) == Word(v, "")
DQuoted(v) == Word(v, "\"")
SQuoted(v) == Word(v, "'")

WordValues(words) == [i \in 1..Len(words) |-> words[i].value]

is_plain_none(words) ==
    /\ Len(words) = 1
    /\ words[1].quote_token = ""
    /\ words[1].value \in {<<"N", "o", "n", "e">>, <<"n", "o", "n", "e">>}

\* str(word): the text a word is printed as (the quote token around the value)
WordStr(w) == IF w.quote_token = "" THEN w.value
              ELSE <<w.quote_token>> \o w.value \o <<w.quote_token>>

-----------------------------------------------------------------------------
(* Nodes.  A definition and a scope are records; objects the parser built   *)
(* carry their place in the heap of parsed trees (oid), which stands for    *)
(* Python's object identity, and a reference to their parent scope (pps).   *)
(* A copy is a new object: its oid is <<>>.                                 *)

NoId == -1
NoRef == <<>>

definition(name, words, is_disabled, optional, multiple, deprecated, alias) ==
    [is_definition |-> TRUE, name |-> name, words |-> words, objects |-> <<>>,
     primary_id |-> NoId, primary_parent_scope |-> NoRef, oid |-> NoRef,
     is_disabled |-> is_disabled, is_template |-> 0,
     optional |-> optional, multiple |-> multiple,
     deprecated |-> deprecated, alias |-> alias, merge_names |-> FALSE]

scope(name, objects, is_disabled, optional, multiple, alias) ==
    [is_definition |-> FALSE, name |-> name, words |-> <<>>, objects |-> objects,
     primary_id |-> NoId, primary_parent_scope |-> NoRef, oid |-> NoRef,
     is_disabled |-> is_disabled, is_template |-> 0,
     optional |-> optional, multiple |-> multiple,
     deprecated |-> FALSE, alias |-> alias, merge_names |-> FALSE]

is_scope(n) == ~n.is_definition

\* definition.copy / scope.copy: every slot is copied into a new object
copy(n) == [n EXCEPT !.oid = NoRef]

\* definition.customized_copy(words=...)
customized_copy_words(n, words) ==
    [copy(n) EXCEPT !.words = words, !.is_template = 0]

\* scope.customized_copy(objects=...)
customized_copy_objects(n, objects) ==
    [copy(n) EXCEPT !.objects = objects, !.is_template = 0]

\* scope.active_objects
RECURSIVE active_objects(_)
active_objects(objs) ==
    IF objs = <<>> THEN <<>>
    ELSE IF Head(objs).is_disabled THEN active_objects(Tail(objs))
    ELSE <<Head(objs)>> \o active_objects(Tail(objs))

-----------------------------------------------------------------------------
(* The heap of parsed trees: tree 0 is the master, tree i the i-th source.  *)
(* A reference is <<tree, i1, ..., ik>>: the child indices from the root.   *)

Root(t) == IF t = 0 THEN master ELSE sources[t]

RECURSIVE Walk(_, _)
Walk(n, p) == IF p = <<>> THEN n ELSE Walk(n.objects[Head(p)], Tail(p))

Deref(ref) == Walk(Root(ref[1]), Tail(ref))

\* scope.adopt: the scope it makes for the leading component of a dotted name
\* (a.b = 1) holds the object with merge_names set, and has no primary_id
AdoptMade(n) ==
    is_scope(n) /\ n.objects # <<>> /\ n.objects[1].merge_names

\* the number of primary_ids the parser draws for a node and what is below it
RECURSIVE NodeCount(_)
RECURSIVE NodeCountObjs(_)
NodeCount(n) ==
    (IF AdoptMade(n) THEN 0 ELSE 1) + NodeCountObjs(n.objects)
NodeCountObjs(objs) ==
    IF objs = <<>> THEN 0 ELSE NodeCount(Head(objs)) + NodeCountObjs(Tail(objs))

\* parse(): parser.collect_objects numbers the objects from count(1) in the
\* order it meets them and scope.adopt sets primary_parent_scope; a scope
\* that adopt makes for a dotted name (a.b = 1) gets no primary_id.
RECURSIVE Locate(_, _, _, _)
RECURSIVE LocateObjs(_, _, _, _)
Locate(n, ref, parent, id) ==
    LET dotted == AdoptMade(n)
        myid == IF dotted THEN NoId ELSE id
        next == IF dotted THEN id ELSE id + 1
    IN [n EXCEPT !.primary_id = myid,
                 !.primary_parent_scope = parent,
                 !.oid = ref,
                 !.objects = IF is_scope(n) THEN LocateObjs(n.objects, ref, next, 1)
                             ELSE <<>>]
LocateObjs(objs, ref, id, i) ==
    IF objs = <<>> THEN <<>>
    ELSE <<Locate(Head(objs), ref \o <<i>>, ref, id)>>
         \o LocateObjs(Tail(objs), ref, id + NodeCount(Head(objs)), i + 1)

\* parse(input_string): the root scope has the empty name and primary_id 0
parse(t, objs) ==
    [scope(<<>>, LocateObjs(objs, <<t>>, 1, 1), FALSE, "None", FALSE, NoneS)
        EXCEPT !.primary_id = 0, !.oid = <<t>>]

\* full_path(self)
RECURSIVE FullPathUp(_)
FullPathUp(ref) ==
    IF ref = NoRef THEN <<>>
    ELSE LET pps == Deref(ref)
         IN IF pps.name = <<>> THEN <<>>
            ELSE <<pps.name>> \o FullPathUp(pps.primary_parent_scope)

full_path(n) ==
    JoinWith(Dot, Reverse(<<n.name>> \o FullPathUp(n.primary_parent_scope)))

\* alias_path(self): None unless the node or one of its ancestors has an alias
RECURSIVE AliasPathUp(_)
AliasPathUp(ref) ==
    IF ref = NoRef THEN [have |-> FALSE, parts |-> <<>>]
    ELSE LET pps == Deref(ref)
         IN IF pps.alias # NoneS THEN [have |-> TRUE, parts |-> <<pps.alias>>]
            ELSE IF pps.name = <<>> THEN [have |-> FALSE, parts |-> <<>>]
            ELSE LET up == AliasPathUp(pps.primary_parent_scope)
                 IN [have |-> up.have, parts |-> <<pps.name>> \o up.parts]

alias_path(n) ==
    IF n.alias # NoneS THEN n.alias
    ELSE LET up == AliasPathUp(n.primary_parent_scope)
         IN IF ~up.have THEN NoneS
            ELSE JoinWith(Dot, Reverse(<<n.name>> \o up.parts))

-----------------------------------------------------------------------------
(* Looking objects up by path *)

\* definition.get_without_substitution(path, alias_path)
definition_get_without_substitution(self, path, apath) ==
    IF self.is_disabled
       \/ (self.name # path /\ (apath = NoneS \/ self.name # apath))
    THEN <<>>
    ELSE <<self>>

\* scope.get_without_substitution(path, alias_path)
RECURSIVE get_without_substitution(_, _, _)
RECURSIVE GetFromObjects(_, _, _)
get_without_substitution(self, path, apath) ==
    IF self.is_definition
    THEN definition_get_without_substitution(self, path, apath)
    ELSE IF self.is_disabled THEN <<>>
    ELSE IF Len(self.name) = 0
    THEN IF Len(path) = 0 THEN self.objects
         ELSE GetFromObjects(self.objects, path, apath)
    ELSE IF self.name = path \/ self.name = apath THEN <<self>>
    ELSE IF StartsWith(path, self.name \o Dot)
    THEN GetFromObjects(self.objects, Drop(path, Len(self.name) + 1), apath)
    ELSE IF apath # NoneS
    THEN IF StartsWith(full_path(self), apath)
         THEN GetFromObjects(self.objects, Drop(path, Len(self.name) + 1),
                             apath)
         ELSE GetFromObjects(self.objects, path, apath)
    ELSE <<>>
GetFromObjects(objs, path, apath) ==
    IF objs = <<>> THEN <<>>
    ELSE IF Head(objs).is_disabled THEN GetFromObjects(Tail(objs), path, apath)
    ELSE get_without_substitution(Head(objs), path, apath)
         \o GetFromObjects(Tail(objs), path, apath)

\* the index of the first active object of that name: names_object.setdefault
FirstActiveNamed(objs, name) ==
    CHOOSE i \in 1..Len(objs) :
        /\ ~objs[i].is_disabled /\ objs[i].name = name
        /\ \A j \in 1..(i - 1) : objs[j].is_disabled \/ objs[j].name # name

\* a generator that yields the first active object of each name only
master_active_objects_first(objs) ==
    [yielded |-> SelectSeq([i \in 1..Len(objs) |-> i],
                           LAMBDA i : ~objs[i].is_disabled
                                      /\ FirstActiveNamed(objs, objs[i].name) = i),
     err |-> FALSE]

\* a generator that raises for a later scope of the same name as well
RECURSIVE MasterActiveStrict(_, _)
MasterActiveStrict(objs, i) ==
    IF i > Len(objs) THEN [yielded |-> <<>>, err |-> FALSE]
    ELSE IF objs[i].is_disabled THEN MasterActiveStrict(objs, i + 1)
    ELSE LET first == FirstActiveNamed(objs, objs[i].name)
             rest == MasterActiveStrict(objs, i + 1)
         IN IF first # i /\ objs[first].multiple THEN rest
            ELSE IF first # i THEN [yielded |-> <<>>, err |-> TRUE]
            ELSE [yielded |-> <<i>> \o rest.yielded, err |-> rest.err]

\* scope.master_active_objects: the generator, run to its end or to the
\* RuntimeError it raises.  yielded: the indices of the objects it yields,
\* in order; err: TRUE when it stops by raising "Duplicate definitions".
RECURSIVE MasterActiveFrom(_, _)
MasterActiveFrom(objs, i) ==
    IF i > Len(objs) THEN [yielded |-> <<>>, err |-> FALSE]
    ELSE IF objs[i].is_disabled THEN MasterActiveFrom(objs, i + 1)
    ELSE LET first == FirstActiveNamed(objs, objs[i].name)
             rest == MasterActiveFrom(objs, i + 1)
         IN IF first # i /\ objs[first].multiple THEN rest
            ELSE IF first # i /\ objs[i].is_definition
            THEN [yielded |-> <<>>, err |-> TRUE]
            ELSE [yielded |-> <<i>> \o rest.yielded, err |-> rest.err]

master_active_objects(objs) == MasterActiveFrom(objs, 1)

-----------------------------------------------------------------------------
(* Lexical lookup: scope.lexical_get(path, stop_id, search_up) *)

RECURSIVE TopScope(_)
TopScope(self) ==
    IF self.primary_parent_scope = NoRef THEN self
    ELSE TopScope(Deref(self.primary_parent_scope))

\* a candidates loop that does not stop at stop_id
RECURSIVE LexicalCandidatesNoStop(_, _, _)
LexicalCandidatesNoStop(objs, path, stop_id) ==
    IF objs = <<>> THEN <<>>
    ELSE LET object == Head(objs)
         IN (IF object.is_definition
             THEN IF object.name = path THEN <<object>> ELSE <<>>
             ELSE IF object.name = path \/ StartsWith(path, object.name \o Dot)
                  THEN <<object>> ELSE <<>>)
            \o LexicalCandidatesNoStop(Tail(objs), path, stop_id)

\* the candidates loop: the objects before the first one whose primary_id is
\* set and not below stop_id, that have the name or lead to it
RECURSIVE LexicalCandidates(_, _, _)
LexicalCandidates(objs, path, stop_id) ==
    IF objs = <<>> THEN <<>>
    ELSE LET object == Head(objs)
         IN IF object.primary_id # NoId /\ object.primary_id >= stop_id THEN <<>>
            ELSE (IF object.is_definition
                  THEN IF object.name = path THEN <<object>> ELSE <<>>
                  ELSE IF object.name = path \/ StartsWith(path, object.name \o Dot)
                       THEN <<object>> ELSE <<>>)
                 \o LexicalCandidates(Tail(objs), path, stop_id)

\* the result is <<>> for None and <<object>> otherwise
RECURSIVE lexical_get(_, _, _, _)
RECURSIVE PopCandidates(_, _, _)
lexical_get(self0, path0, stop_id, search_up) ==
    LET self == IF StartsWith(path0, Dot) THEN TopScope(self0) ELSE self0
        path == IF StartsWith(path0, Dot) THEN Drop(path0, 1) ELSE path0
        Popped(found) ==
            IF found # <<>> THEN found
            ELSE IF ~search_up THEN <<>>
            ELSE IF self.primary_parent_scope = NoRef THEN <<>>
            ELSE lexical_get(Deref(self.primary_parent_scope), path, stop_id, TRUE)
    IN Popped(PopCandidates(LexicalCandidates(self.objects, path, stop_id),
                            path, stop_id))
PopCandidates(candidates, path, stop_id) ==
    IF candidates = <<>> THEN <<>>
    ELSE LET object == Last(candidates)
             rest == SubSeq(candidates, 1, Len(candidates) - 1)
         IN IF object.name = path THEN <<object>>
            ELSE LET sub == lexical_get(object, Drop(path, Len(object.name) + 1),
                                        stop_id, FALSE)
                 IN IF sub # <<>> THEN sub
                    ELSE PopCandidates(rest, path, stop_id)

-----------------------------------------------------------------------------
(* Variable substitution *)

\* variable_substitution_fragment
Fragment(is_variable, value) == [is_variable |-> is_variable, value |-> value]

\* the index of the first ")" at or after i, or 0
RECURSIVE FindClose(_, _)
FindClose(s, i) ==
    IF i > Len(s) THEN 0 ELSE IF s[i] = ")" THEN i ELSE FindClose(s, i + 1)

\* the index of the last character of the identifier that starts at i
RECURSIVE IdentEnd(_, _)
IdentEnd(s, i) ==
    IF i + 1 > Len(s) THEN i
    ELSE IF s[i + 1] \notin standard_identifier_continuation_characters THEN i
    ELSE IdentEnd(s, i + 1)

\* variable_substitution_proxy.__init__: the scan of word.value from
\* character i on, with the literal run read so far.  err: a syntax error.
RECURSIVE ScanFragments(_, _, _, _)
ScanFragments(s, i, fragment_value, fragments) ==
    LET flushed == IF Len(fragment_value) > 0
                   THEN Append(fragments, Fragment(FALSE, fragment_value))
                   ELSE fragments
        bad == [err |-> TRUE, fragments |-> <<>>]
    IN IF i > Len(s) THEN [err |-> FALSE, fragments |-> flushed]
       ELSE IF s[i] # "$"
       THEN IF s[i] = "\\" /\ i + 1 <= Len(s) /\ s[i + 1] = "$"
            THEN ScanFragments(s, i + 2, fragment_value \o <<"\\", "$">>, fragments)
            ELSE ScanFragments(s, i + 1, Append(fragment_value, s[i]), fragments)
       ELSE IF i + 1 > Len(s) THEN bad
       ELSE IF s[i + 1] = "("
       THEN LET close == FindClose(s, i + 2)
                name == SubSeq(s, i + 2, close - 1)
                offs == IF StartsWith(name, Dot) THEN 1 ELSE 0
            IN IF close = 0 THEN bad
               ELSE IF ~is_standard_identifier(Drop(name, offs)) THEN bad
               ELSE ScanFragments(s, close + 1, <<>>,
                                  Append(flushed, Fragment(TRUE, name)))
       ELSE IF s[i + 1] \notin standard_identifier_start_characters THEN bad
       ELSE LET end == IdentEnd(s, i + 1)
            IN ScanFragments(s, end + 1, <<>>,
                             Append(flushed, Fragment(TRUE, SubSeq(s, i + 1, end))))

variable_substitution_proxy(word) ==
    LET Scanned(scan) ==
            [err |-> scan.err,
             fragments |-> scan.fragments,
             have_variables |-> \E k \in 1..Len(scan.fragments) :
                                   scan.fragments[k].is_variable,
             force_string |-> word.quote_token # "" \/ Len(scan.fragments) > 1]
    IN Scanned(ScanFragments(word.value, 1, <<>>, <<>>))

\* os.environ.get(name, None)
EnvGet(name) == IF name \in DOMAIN env THEN env[name] ELSE NoneS

\* definition.resolve_variables(diff_mode).  err: "" or the RuntimeError;
\* words: the new words; used: the objects whose tmp it sets to True.
RECURSIVE resolve_variables(_, _)
RECURSIVE ResolveFragments(_, _, _, _, _)
RECURSIVE ResolveWords(_, _, _)

\* the lookup order the other way round: the environment before the
\* lexical scope
ResolveVariableEnvFirst(self, fragment, diff_mode) ==
    LET env_var == IF diff_mode THEN <<"$">> \o fragment.value
                   ELSE EnvGet(fragment.value)
        Substituted(substitution_source, sub) ==
            [err |-> sub.err, words |-> sub.words,
             used |-> sub.used \cup {substitution_source[1].oid}]
        Found(substitution_source) ==
            IF env_var # NoneS
            THEN [err |-> "", words |-> <<DQuoted(env_var)>>, used |-> {}]
            ELSE IF substitution_source # <<>>
            THEN IF ~substitution_source[1].is_definition
                 THEN [err |-> "Not a definition", words |-> <<>>, used |-> {}]
                 ELSE Substituted(substitution_source,
                                  resolve_variables(substitution_source[1], FALSE))
            ELSE [err |-> "Undefined variable", words |-> <<>>, used |-> {}]
    IN Found(IF self.primary_parent_scope = NoRef THEN <<>>
             ELSE lexical_get(Deref(self.primary_parent_scope), fragment.value,
                              self.primary_id, TRUE))

\* one variable fragment: the words it stands for
ResolveVariable(self, fragment, diff_mode) ==
    LET env_var == IF diff_mode THEN <<"$">> \o fragment.value
                   ELSE EnvGet(fragment.value)
        Substituted(substitution_source, sub) ==
            [err |-> sub.err, words |-> sub.words,
             used |-> sub.used \cup {substitution_source[1].oid}]
        Found(substitution_source) ==
            IF substitution_source # <<>>
            THEN IF ~substitution_source[1].is_definition
                 THEN [err |-> "Not a definition", words |-> <<>>, used |-> {}]
                 ELSE Substituted(substitution_source,
                                  resolve_variables(substitution_source[1], FALSE))
            ELSE IF env_var # NoneS
            THEN [err |-> "", words |-> <<DQuoted(env_var)>>, used |-> {}]
            ELSE [err |-> "Undefined variable", words |-> <<>>, used |-> {}]
    IN Found(IF self.primary_parent_scope = NoRef THEN <<>>
             ELSE lexical_get(Deref(self.primary_parent_scope), fragment.value,
                              self.primary_id, TRUE))

\* the loop over substitution_proxy.fragments; results: fragment.result of
\* each fragment done so far (a sequence of words)
ResolveFragments(self, fragments, force_string, diff_mode, done) ==
    IF fragments = <<>> THEN [err |-> "", results |-> done.results, used |-> done.used]
    ELSE LET fragment == Head(fragments)
         IN IF ~fragment.is_variable
            THEN ResolveFragments(self, Tail(fragments), force_string, diff_mode,
                    [results |-> Append(done.results, <<DQuoted(fragment.value)>>),
                     used |-> done.used])
            ELSE LET Resolved(v) ==
                        LET result ==
                                IF ~force_string THEN v.words
                                ELSE <<DQuoted(JoinWith(<<" ">>, WordValues(v.words)))>>
                        IN IF v.err # ""
                           THEN [err |-> v.err, results |-> <<>>,
                                 used |-> done.used \cup v.used]
                           ELSE ResolveFragments(self, Tail(fragments),
                                   force_string, diff_mode,
                                   [results |-> Append(done.results, result),
                                    used |-> done.used \cup v.used])
                 IN Resolved(ResolveVariable(self, fragment, diff_mode))

\* new words that are the result of the first fragment alone
get_new_words_first(word, proxy, results) ==
    IF ~proxy.have_variables THEN <<word>> ELSE results[1]

\* variable_substitution_proxy.get_new_words
get_new_words(word, proxy, results) ==
    IF ~proxy.have_variables THEN <<word>>
    ELSE IF ~proxy.force_string THEN results[1]
    ELSE <<DQuoted(Flatten([k \in 1..Len(results) |-> results[k][1].value]))>>

ResolveWords(self, words, diff_mode) ==
    IF words = <<>> THEN [err |-> "", words |-> <<>>, used |-> {}]
    ELSE LET word == Head(words)
             rest == ResolveWords(self, Tail(words), diff_mode)
             Substituted(proxy, frs) ==
                IF frs.err # ""
                THEN [err |-> frs.err, words |-> <<>>, used |-> frs.used]
                ELSE [err |-> rest.err,
                      words |-> IF rest.err = ""
                                THEN get_new_words(word, proxy, frs.results)
                                     \o rest.words
                                ELSE <<>>,
                      used |-> frs.used \cup rest.used]
             Scanned(proxy) ==
                IF proxy.err
                THEN [err |-> "Syntax error", words |-> <<>>, used |-> {}]
                ELSE Substituted(proxy,
                        ResolveFragments(self, proxy.fragments, proxy.force_string,
                                         diff_mode, [results |-> <<>>, used |-> {}]))
         IN IF word.quote_token = "'"
            THEN [err |-> rest.err, words |-> <<word>> \o rest.words,
                  used |-> rest.used]
            ELSE Scanned(variable_substitution_proxy(word))

resolve_variables(self, diff_mode) == ResolveWords(self, self.words, diff_mode)

-----------------------------------------------------------------------------
(* The value graph: what extract returns.  A value is None, a list of       *)
(* strings (a definition without .type), a scope_extract (its attributes,   *)
(* by name) or a scope_extract_list.  Crash stands for the AttributeError,  *)
(* TypeError or AssertionError Python raises when a name is used for        *)
(* objects of different kinds.                                              *)

VNone == [t |-> "None"]
VStrings(v) == [t |-> "strings", v |-> v]
VIsDisabled == [t |-> "scope_extract_is_disabled"]
VScope(attrs) == [t |-> "scope_extract", attrs |-> attrs]
VList(optional, items) ==
    [t |-> "scope_extract_list", optional |-> optional, items |-> items]
VCrash == [t |-> "crash"]

NoAttrs == [n \in {} |-> VNone]

SetAttr(attrs, name, value) ==
    [n \in DOMAIN attrs \cup {name} |-> IF n = name THEN value ELSE attrs[n]]

\* converters.strings_from_words
strings_from_words(words) ==
    IF is_plain_none(words) THEN VNone ELSE VStrings(WordValues(words))

\* converters.strings_as_words
strings_as_words(python_object) ==
    IF python_object.t = "None" THEN <<Unquoted(<<"N", "o", "n", "e">>)>>
    ELSE [i \in 1..Len(python_object.v) |->
            IF is_standard_identifier(python_object.v[i])
            THEN Unquoted(python_object.v[i])
            ELSE DQuoted(python_object.v[i])]

\* the items of other that are not None, appended (scope_extract.__phil_join__)
RECURSIVE NotNoneItems(_)
NotNoneItems(items) ==
    IF items = <<>> THEN <<>>
    ELSE IF Head(items) = VNone THEN NotNoneItems(Tail(items))
    ELSE <<Head(items)>> \o NotNoneItems(Tail(items))

SetToSeq(S) ==
    CHOOSE f \in [1..Cardinality(S) -> S] : \A i, j \in DOMAIN f : i # j => f[i] # f[j]

\* scope_extract.__phil_join__(other): the attributes of self afterwards
RECURSIVE phil_join(_, _)
RECURSIVE JoinKeys(_, _, _)
phil_join(self, other) == JoinKeys(self, other, SetToSeq(DOMAIN other.attrs))
JoinKeys(self, other, keys) ==
    IF keys = <<>> THEN self
    ELSE IF self = VCrash THEN VCrash
    ELSE LET key == Head(keys)
             other_value == other.attrs[key]
             self_value == IF key \in DOMAIN self.attrs THEN self.attrs[key]
                           ELSE VNone
             joined ==
                IF self_value = VNone THEN other_value
                ELSE IF self_value.t = "scope_extract_list"
                THEN IF other_value.t # "scope_extract_list" THEN VCrash
                     ELSE LET all == self_value.items \o NotNoneItems(other_value.items)
                          IN [self_value EXCEPT !.items =
                                IF Len(all) > 1 /\ all[1] = VNone THEN Tail(all)
                                ELSE all]
                ELSE IF self_value.t = "scope_extract"
                THEN IF other_value.t # "scope_extract" THEN VCrash
                     ELSE phil_join(self_value, other_value)
                ELSE other_value
         IN IF joined = VCrash THEN VCrash
            ELSE JoinKeys(VScope(SetAttr(self.attrs, key, joined)), other,
                          Tail(keys))

\* a __phil_set__ that appends no None to a list, whatever optional is
phil_set_skip_none(self, name, optional, multiple, value0) ==
    LET has == name \in DOMAIN self.attrs
    IN IF ~multiple
       THEN LET value == IF value0 = VIsDisabled THEN VNone ELSE value0
            IN IF ~has \/ value.t # "scope_extract"
                  \/ self.attrs[name].t # "scope_extract"
               THEN VScope(SetAttr(self.attrs, name, value))
               ELSE LET joined == phil_join(self.attrs[name], value)
                    IN IF joined = VCrash THEN VCrash
                       ELSE VScope(SetAttr(self.attrs, name, joined))
       ELSE LET node == IF has THEN self.attrs[name] ELSE VList(optional, <<>>)
            IN IF value0 # VIsDisabled /\ value0 # VNone
               THEN IF node.t # "scope_extract_list" THEN VCrash
                    ELSE VScope(SetAttr(self.attrs, name,
                                        [node EXCEPT !.items = Append(@, value0)]))
               ELSE VScope(SetAttr(self.attrs, name, node))

\* a __phil_set__ that takes scope_extract_is_disabled for the value None
phil_set_disabled_none(self, name, optional, multiple, value0) ==
    LET has == name \in DOMAIN self.attrs
        value == IF value0 = VIsDisabled THEN VNone ELSE value0
    IN IF ~multiple
       THEN IF ~has \/ value.t # "scope_extract"
               \/ self.attrs[name].t # "scope_extract"
            THEN VScope(SetAttr(self.attrs, name, value))
            ELSE LET joined == phil_join(self.attrs[name], value)
                 IN IF joined = VCrash THEN VCrash
                    ELSE VScope(SetAttr(self.attrs, name, joined))
       ELSE LET node == IF has THEN self.attrs[name] ELSE VList(optional, <<>>)
            IN IF value # VNone \/ optional # "True"
               THEN IF node.t # "scope_extract_list" THEN VCrash
                    ELSE VScope(SetAttr(self.attrs, name,
                                        [node EXCEPT !.items = Append(@, value)]))
               ELSE VScope(SetAttr(self.attrs, name, node))

\* scope_extract.__phil_set__(name, optional, multiple, value)
phil_set(self, name, optional, multiple, value0) ==
    LET has == name \in DOMAIN self.attrs
    IN IF ~multiple
       THEN LET value == IF value0 = VIsDisabled THEN VNone ELSE value0
            IN IF ~has \/ value.t # "scope_extract"
                  \/ self.attrs[name].t # "scope_extract"
               THEN VScope(SetAttr(self.attrs, name, value))
               ELSE LET joined == phil_join(self.attrs[name], value)
                    IN IF joined = VCrash THEN VCrash
                       ELSE VScope(SetAttr(self.attrs, name, joined))
       ELSE LET node == IF has THEN self.attrs[name] ELSE VList(optional, <<>>)
            IN IF value0 # VIsDisabled /\ (value0 # VNone \/ optional # "True")
               THEN IF node.t # "scope_extract_list" THEN VCrash
                    ELSE VScope(SetAttr(self.attrs, name,
                                        [node EXCEPT !.items = Append(@, value0)]))
               ELSE VScope(SetAttr(self.attrs, name, node))

\* definition.extract and scope.extract
RECURSIVE extract(_)
RECURSIVE ExtractObjects(_, _)
extract(self) ==
    IF self.is_definition THEN strings_from_words(self.words)
    ELSE ExtractObjects(self.objects, VScope(NoAttrs))
ExtractObjects(objs, result) ==
    IF objs = <<>> \/ result = VCrash THEN result
    ELSE LET object == Head(objs)
             value == IF object.is_disabled \/ object.is_template > 0
                      THEN VIsDisabled ELSE extract(object)
         IN IF object.is_template < 0 THEN ExtractObjects(Tail(objs), result)
            ELSE IF value = VCrash THEN VCrash
            ELSE ExtractObjects(Tail(objs),
                    phil_set(result, object.name, object.optional,
                             object.multiple, value))

-----------------------------------------------------------------------------
(* format: from a value back to a tree, along the master *)

\* definition.format(python_object) for a definition without .type
definition_format(self, python_object) ==
    customized_copy_words(self, strings_as_words(python_object))

\* scope.format(python_object).  err: "" or what it raised; node: the result.
RECURSIVE format(_, _)
RECURSIVE FormatObjects(_, _, _, _, _)
RECURSIVE FormatItems(_, _)
RECURSIVE FormatItemsReversed(_, _)
format(self, python_object) ==
    IF self.is_definition
    THEN IF python_object.t \in {"None", "strings"}
         THEN [err |-> "", node |-> definition_format(self, python_object)]
         ELSE [err |-> "crash", node |-> self]
    ELSE LET Done(active, done) ==
                IF done.err # "" THEN [err |-> done.err, node |-> self]
                ELSE IF active.err
                THEN [err |-> "Duplicate definitions", node |-> self]
                ELSE [err |-> "", node |-> customized_copy_objects(self, done.objects)]
             Active(active) ==
                Done(active,
                     FormatObjects(self, python_object, active.yielded, {}, <<>>))
         IN Active(master_active_objects(self.objects))
\* the first element of the list alone
FormatItemsFirst(object, items) ==
    IF items = <<>> THEN [err |-> "", objects |-> <<>>]
    ELSE LET Formatted(one) ==
                IF one.err # "" THEN [err |-> one.err, objects |-> <<>>]
                ELSE [err |-> "", objects |-> <<one.node>>]
         IN Formatted(format(object, Head(items)))
\* the elements of the list, the last one first
FormatItemsReversed(object, items) ==
    IF items = <<>> THEN [err |-> "", objects |-> <<>>]
    ELSE LET one == format(object, Head(items))
             rest == FormatItemsReversed(object, Tail(items))
         IN IF one.err # "" THEN [err |-> one.err, objects |-> <<>>]
            ELSE IF rest.err # "" THEN rest
            ELSE [err |-> "", objects |-> rest.objects \o <<one.node>>]
\* object.format(sub_python_object_i) for each element of the list
FormatItems(object, items) ==
    IF items = <<>> THEN [err |-> "", objects |-> <<>>]
    ELSE LET one == format(object, Head(items))
             rest == FormatItems(object, Tail(items))
         IN IF one.err # "" THEN [err |-> one.err, objects |-> <<>>]
            ELSE IF rest.err # "" THEN rest
            ELSE [err |-> "", objects |-> <<one.node>> \o rest.objects]
\* the loop over self.master_active_objects(); multiple_scopes_done: the
\* names in the dictionary, templated: those it maps to True
FormatObjects(self, python_object, yielded, multiple_scopes_done, result) ==
    IF yielded = <<>> THEN [err |-> "", objects |-> result]
    ELSE LET object == self.objects[Head(yielded)]
             is_ms == object.multiple /\ is_scope(object)
             next(objs) ==
                FormatObjects(self, python_object, Tail(yielded),
                    IF is_ms THEN multiple_scopes_done \cup {object.name}
                    ELSE multiple_scopes_done,
                    result \o objs)
             fail == [err |-> "crash", objects |-> <<>>]
         IN IF is_ms /\ object.name \in multiple_scopes_done THEN next(<<>>)
            ELSE IF python_object.t = "None"
            THEN LET one == format(object, VNone)
                 IN IF one.err # "" THEN [err |-> one.err, objects |-> <<>>]
                    ELSE next(<<one.node>>)
            ELSE IF python_object.t # "scope_extract" THEN fail
            ELSE IF object.name \notin DOMAIN python_object.attrs THEN next(<<>>)
            ELSE LET sub_python_object == python_object.attrs[object.name]
                 IN IF ~object.multiple
                    THEN LET one == format(object, sub_python_object)
                         IN IF one.err # "" THEN [err |-> one.err, objects |-> <<>>]
                            ELSE next(<<one.node>>)
                    ELSE IF sub_python_object.t # "scope_extract_list" THEN fail
                    ELSE IF Len(sub_python_object.items) = 0
                    THEN next(<<[copy(object) EXCEPT !.is_template = 1]>>)
                    ELSE LET items == FormatItems(object, sub_python_object.items)
                         IN IF items.err # "" THEN [err |-> items.err, objects |-> <<>>]
                            ELSE next((IF is_ms
                                       THEN <<[copy(object) EXCEPT !.is_template = -1]>>
                                       ELSE <<>>) \o items.objects)

\* extract_format(source): self.format(source.extract()); source None is self
extract_format(self, source) ==
    LET Formatted(value) ==
            IF value = VCrash THEN [err |-> "crash", node |-> self]
            ELSE format(self, value)
    IN Formatted(extract(source))

-----------------------------------------------------------------------------
(* show / as_str with attributes_level 0: the lines printed.  No line of the *)
(* model reaches print_width, so none is wrapped.                           *)

RECURSIVE Spaces(_)
Spaces(n) == IF n = 0 THEN <<>> ELSE <<" ">> \o Spaces(n - 1)

RECURSIVE WordsStr(_)
WordsStr(words) ==
    IF words = <<>> THEN <<>>
    ELSE <<" ">> \o WordStr(Head(words)) \o WordsStr(Tail(words))

\* definition.show
definition_show(self, merged_names, prefix) ==
    IF self.is_template < 0 THEN <<>>
    ELSE IF self.deprecated THEN <<>>
    ELSE <<Spaces(prefix) \o (IF self.is_disabled THEN <<"!">> ELSE <<>>)
           \o JoinWith(Dot, merged_names \o <<self.name>>) \o <<" ", "=">>
           \o WordsStr(self.words)>>

\* scope.show
RECURSIVE show(_, _, _)
RECURSIVE ShowObjects(_, _, _)
show(self, merged_names, prefix) ==
    IF self.is_definition THEN definition_show(self, merged_names, prefix)
    ELSE IF self.is_template < 0 THEN <<>>
    ELSE IF Len(self.name) = 0 THEN ShowObjects(self.objects, merged_names, prefix)
    ELSE IF Len(self.objects) > 0 /\ self.objects[1].merge_names
    THEN ShowObjects(self.objects, merged_names \o <<self.name>>, prefix)
    ELSE <<Spaces(prefix) \o (IF self.is_disabled THEN <<"!">> ELSE <<>>)
           \o JoinWith(Dot, merged_names \o <<self.name>>) \o <<" ", "{">> >>
         \o ShowObjects(self.objects, <<>>, prefix + 2)
         \o <<Spaces(prefix) \o <<"}">> >>
ShowObjects(objs, merged_names, prefix) ==
    IF objs = <<>> THEN <<>>
    ELSE show(Head(objs), merged_names, prefix)
         \o ShowObjects(Tail(objs), merged_names, prefix)

as_str(self) == show(self, <<>>, 0)

-----------------------------------------------------------------------------
(* fetch.  Every fetch operator returns a record: err is "" or the error    *)
(* raised, res the object returned (<<>> for None), used the objects whose  *)
(* tmp was set to True on the way, warn the full paths a                    *)
(* PhilDeprecationWarning was issued for.                                   *)

Raised(e, used, warn) == [err |-> e, res |-> <<>>, used |-> used, warn |-> warn]
Returned(res, used, warn) == [err |-> "", res |-> res, used |-> used, warn |-> warn]

\* a fetch_value that treats a deprecated definition like any other
fetch_value_any(self, source, diff_mode, skip_incompatible_objects) ==
    IF is_scope(source)
    THEN IF skip_incompatible_objects THEN Returned(<<copy(self)>>, {}, {})
         ELSE Raised("Incompatible parameter objects", {}, {})
    ELSE LET Resolved(resolved) ==
                LET used == {source.oid} \cup resolved.used
                IN IF resolved.err # "" THEN Raised(resolved.err, used, {})
                   ELSE Returned(<<customized_copy_words(self, resolved.words)>>,
                                 used, {})
         IN Resolved(resolve_variables(source, diff_mode))

\* a fetch_value that sets the tmp flag of the master definition
fetch_value_marks_self(self, source, diff_mode, skip_incompatible_objects) ==
    IF is_scope(source)
    THEN IF skip_incompatible_objects THEN Returned(<<copy(self)>>, {}, {})
         ELSE Raised("Incompatible parameter objects", {}, {})
    ELSE LET Resolved(resolved) ==
                LET used == {self.oid} \cup resolved.used
                    changed == strings_from_words(resolved.words)
                               # strings_from_words(self.words)
                IN IF resolved.err # "" THEN Raised(resolved.err, used, {})
                   ELSE IF self.deprecated /\ ~changed THEN Returned(<<>>, used, {})
                   ELSE Returned(<<customized_copy_words(self, resolved.words)>>,
                                 used,
                                 IF self.deprecated THEN {full_path(self)} ELSE {})
         IN Resolved(resolve_variables(source, diff_mode))

\* definition.fetch_value(source, diff_mode, skip_incompatible_objects)
fetch_value(self, source, diff_mode, skip_incompatible_objects) ==
    IF is_scope(source)
    THEN IF skip_incompatible_objects THEN Returned(<<copy(self)>>, {}, {})
         ELSE Raised("Incompatible parameter objects", {}, {})
    ELSE LET Resolved(resolved) ==
                LET used == {source.oid} \cup resolved.used
                    changed == strings_from_words(resolved.words)
                               # strings_from_words(self.words)
                IN IF resolved.err # "" THEN Raised(resolved.err, used, {})
                   ELSE IF self.deprecated /\ ~changed THEN Returned(<<>>, used, {})
                   ELSE Returned(<<customized_copy_words(self, resolved.words)>>,
                                 used,
                                 IF self.deprecated THEN {full_path(self)} ELSE {})
         IN Resolved(resolve_variables(source, diff_mode))

\* definition.extract_format(source).as_str(); source None is self
definition_extract_format_as_str(self, source) ==
    as_str(definition_format(self, extract(IF source = <<>> THEN self
                                           ELSE source[1])))

\* a fetch_diff that drops the result that differs and keeps the one that
\* does not
definition_fetch_diff_inverted(self, source, skip_incompatible_objects) ==
    LET Compared(result) ==
            IF result.err # "" THEN result
            ELSE IF definition_extract_format_as_str(self, result.res)
                    # definition_extract_format_as_str(self, <<>>)
            THEN Returned(<<>>, result.used, result.warn)
            ELSE result
    IN Compared(fetch_value(self, source, TRUE, skip_incompatible_objects))

\* a fetch_diff that keeps what fetch_value returns, equal to self or not
definition_fetch_diff_keep(self, source, skip_incompatible_objects) ==
    fetch_value(self, source, TRUE, skip_incompatible_objects)

\* definition.fetch_diff(source, skip_incompatible_objects)
definition_fetch_diff(self, source, skip_incompatible_objects) ==
    LET Compared(result) ==
            IF result.err # "" THEN result
            ELSE IF definition_extract_format_as_str(self, result.res)
                    = definition_extract_format_as_str(self, <<>>)
            THEN [result EXCEPT !.res = <<>>]
            ELSE result
    IN Compared(fetch_value(self, source, TRUE, skip_incompatible_objects))

\* definition.fetch(source, diff, skip_incompatible_objects)
definition_fetch(self, source, diff, skip_incompatible_objects) ==
    IF diff THEN definition_fetch_diff(self, source, skip_incompatible_objects)
    ELSE fetch_value(self, source, FALSE, skip_incompatible_objects)

\* the loop of scope.fetch over the sources: combined_objects
RECURSIVE CombinedObjects(_, _, _)
CombinedObjects(self, srcs, skip_incompatible_objects) ==
    IF srcs = <<>> THEN [err |-> "", objects |-> <<>>]
    ELSE LET source == Head(srcs)
             rest == CombinedObjects(self, Tail(srcs), skip_incompatible_objects)
         IN IF source.name # self.name THEN [err |-> "AssertionError", objects |-> <<>>]
            ELSE IF source.is_definition
            THEN IF skip_incompatible_objects THEN rest
                 ELSE [err |-> "Incompatible parameter objects", objects |-> <<>>]
            ELSE [err |-> rest.err, objects |-> source.objects \o rest.objects]

\* master_object.extract_format(source).as_str(), which may raise
ExtractFormatAsStr(self, source) ==
    IF self.is_definition
    THEN [err |-> "", str |-> definition_extract_format_as_str(self, source)]
    ELSE LET Shown(f) ==
                [err |-> f.err, str |-> IF f.err = "" THEN as_str(f.node) ELSE <<>>]
         IN Shown(extract_format(self, IF source = <<>> THEN self ELSE source[1]))

\* the objects of result_objs that are not None
RECURSIVE NotNone(_)
NotNone(objs) ==
    IF objs = <<>> THEN <<>> ELSE Head(objs) \o NotNone(Tail(objs))

\* scope.fetch(sources, diff, skip_incompatible_objects)
RECURSIVE fetch(_, _, _, _)
RECURSIVE FetchObjects(_, _, _, _, _, _)
RECURSIVE FetchLast(_, _, _, _, _)
RECURSIVE FetchMultiple(_, _, _, _, _, _)

\* a loop that stops at the first matching source
FetchFirst(master_object, matching, diff, skip_incompatible_objects, acc) ==
    IF matching = <<>> THEN acc
    ELSE LET Fetched(r) ==
                [err |-> r.err, res |-> r.res,
                 used |-> acc.used \cup r.used, warn |-> acc.warn \cup r.warn]
         IN Fetched(definition_fetch(master_object, Head(matching), diff,
                                     skip_incompatible_objects))

\* the loop "for matching_source in matching_sources.active_objects()" of a
\* definition that is not multiple: the last result stands
FetchLast(master_object, matching, diff, skip_incompatible_objects, acc) ==
    IF matching = <<>> THEN acc
    ELSE LET Fetched(r) ==
                LET now == [err |-> r.err, res |-> r.res,
                            used |-> acc.used \cup r.used,
                            warn |-> acc.warn \cup r.warn]
                IN IF r.err # "" THEN now
                   ELSE FetchLast(master_object, Tail(matching), diff,
                                  skip_incompatible_objects, now)
         IN Fetched(definition_fetch(master_object, Head(matching), diff,
                                     skip_incompatible_objects))

\* a bookkeeping that appends the candidate and leaves the earlier one
RecordCandidateKeepBoth(acc, candidate, candidate_as_str, suppress) ==
    LET known == candidate_as_str \in DOMAIN acc.processed_as_str
        put(idx) == [k \in DOMAIN acc.processed_as_str \cup {candidate_as_str}
                       |-> IF k = candidate_as_str THEN idx
                           ELSE acc.processed_as_str[k]]
    IN IF known /\ acc.processed_as_str[candidate_as_str] = -1 THEN acc
       ELSE IF suppress THEN [acc EXCEPT !.processed_as_str = put(-1)]
       ELSE [acc EXCEPT !.processed_as_str = put(Len(acc.result_objs)),
                        !.result_objs = Append(acc.result_objs, candidate)]

\* the bookkeeping of one candidate of a multiple object: processed_as_str
\* is a function from the serialized form to the index in result_objs (-1
\* for a suppressed form), result_objs holds <<>> for None; suppress is
\* "diff and from_master"
RecordCandidate(acc, candidate, candidate_as_str, suppress) ==
    LET known == candidate_as_str \in DOMAIN acc.processed_as_str
        prev_index == acc.processed_as_str[candidate_as_str]
        cleared == IF known
                   THEN [acc.result_objs EXCEPT ![prev_index + 1] = <<>>]
                   ELSE acc.result_objs
        put(idx) == [k \in DOMAIN acc.processed_as_str \cup {candidate_as_str}
                       |-> IF k = candidate_as_str THEN idx
                           ELSE acc.processed_as_str[k]]
    IN IF known /\ prev_index = -1 THEN acc
       ELSE IF suppress
       THEN [acc EXCEPT !.processed_as_str = put(-1), !.result_objs = cleared]
       ELSE [acc EXCEPT !.processed_as_str = put(Len(cleared)),
                        !.result_objs = Append(cleared, candidate)]

\* the two loops over the master's own siblings (from_master) and over the
\* matching sources of a multiple object
FetchMultiple(master_object, master_as_str, items, diff, skip, acc) ==
    IF items = <<>> THEN acc
    ELSE LET from_master == Head(items).from_master
             matching_source == Head(items).node
             next(a) == FetchMultiple(master_object, master_as_str, Tail(items),
                                      diff, skip, a)
             Shown(seen, candidate, cs) ==
                IF cs.err # "" THEN [seen EXCEPT !.err = cs.err]
                ELSE IF cs.str = master_as_str THEN next(seen)
                ELSE next(RecordCandidate(seen, candidate, cs.str,
                                          diff /\ from_master))
             Fetched(r) ==
                LET seen == [acc EXCEPT !.used = @ \cup r.used,
                                        !.warn = @ \cup r.warn]
                    candidate == r.res
                IN IF r.err # "" THEN [seen EXCEPT !.err = r.err]
                   ELSE IF diff /\ is_scope(master_object)
                           /\ Len(candidate[1].objects) = 0
                   THEN next(seen)
                   ELSE IF diff /\ master_object.is_definition /\ candidate = <<>>
                   THEN next(seen)
                   ELSE Shown(seen, candidate,
                              ExtractFormatAsStr(master_object, candidate))
         IN IF matching_source.oid # NoRef /\ matching_source.oid = master_object.oid
            THEN next(acc)
            ELSE Fetched(IF master_object.is_definition
                         THEN definition_fetch(master_object, matching_source,
                                               diff, skip)
                         ELSE fetch(master_object, <<matching_source>>, diff, skip))

\* a marker that tells nothing of what was processed
TemplateMarkerUnset(master_object, processed_as_str) ==
    [copy(master_object) EXCEPT
        !.is_template = IF master_object.optional = "False" THEN 0 ELSE 1]

\* the copy of a multiple master object that a non-diff fetch puts before
\* the object's entries
TemplateMarker(master_object, processed_as_str) ==
    [copy(master_object) EXCEPT
        !.is_template = IF master_object.optional = "False" THEN 0
                        ELSE IF DOMAIN processed_as_str = {} THEN 1
                        ELSE -1]

Tagged(from_master, nodes) ==
    [k \in 1..Len(nodes) |-> [from_master |-> from_master, node |-> nodes[k]]]

\* the loop "for master_object in self.master_active_objects()"
FetchObjects(self, source, yielded, diff, skip_incompatible_objects, acc) ==
    IF yielded = <<>> THEN acc
    ELSE LET master_object == self.objects[Head(yielded)]
             path == IF Len(self.name) = 0 THEN master_object.name
                     ELSE self.name \o Dot \o master_object.name
             next(a) == FetchObjects(self, source, Tail(yielded), diff,
                                     skip_incompatible_objects, a)
             with(r, objs) == [err |-> "", objects |-> acc.objects \o objs,
                               used |-> acc.used \cup r.used,
                               warn |-> acc.warn \cup r.warn]
             fail(r) == [err |-> r.err, objects |-> <<>>,
                         used |-> acc.used \cup r.used,
                         warn |-> acc.warn \cup r.warn]
             keep(r, result_object) ==
                IF result_object # <<>> THEN next(with(r, result_object))
                ELSE IF ~diff /\ ~master_object.deprecated
                THEN next(with(r, <<copy(master_object)>>))
                ELSE next(with(r, <<>>))
             FetchedDefinition(r) ==
                IF r.err # "" THEN fail(r) ELSE keep(r, r.res)
             FetchedScope(r) ==
                IF r.err # "" THEN fail(r)
                ELSE IF diff /\ Len(r.res[1].objects) = 0 THEN keep(r, <<>>)
                ELSE keep(r, r.res)
             FetchedMultiple(r) ==
                LET obj == TemplateMarker(master_object, r.processed_as_str)
                IN IF r.err # "" THEN fail(r)
                   ELSE next(with(r, (IF ~diff THEN <<obj>> ELSE <<>>)
                                     \o NotNone(r.result_objs)))
             MasterShown(matching_sources, ms) ==
                IF ms.err # "" THEN fail([err |-> ms.err, used |-> {}, warn |-> {}])
                ELSE FetchedMultiple(
                        FetchMultiple(master_object, ms.str,
                            Tagged(TRUE, active_objects(
                                    get_without_substitution(self, path, NoneS)))
                            \o Tagged(FALSE, matching_sources),
                            diff, skip_incompatible_objects,
                            [err |-> "", used |-> {}, warn |-> {},
                             processed_as_str |-> [k \in {} |-> 0],
                             result_objs |-> <<>>]))
             Matched(matching_sources) ==
                IF ~master_object.multiple
                THEN IF master_object.is_definition
                     THEN FetchedDefinition(
                            FetchLast(master_object, matching_sources, diff,
                                      skip_incompatible_objects,
                                      Returned(<<>>, {}, {})))
                     ELSE FetchedScope(
                            fetch(master_object, matching_sources, diff,
                                  skip_incompatible_objects))
                ELSE MasterShown(matching_sources,
                                 ExtractFormatAsStr(master_object, <<>>))
         IN Matched(active_objects(
                get_without_substitution(source, path, alias_path(master_object))))

fetch(self, srcs, diff, skip_incompatible_objects) ==
    LET Done(active, done) ==
            IF done.err # "" THEN Raised(done.err, done.used, done.warn)
            ELSE IF active.err
            THEN Raised("Duplicate definitions", done.used, done.warn)
            ELSE Returned(<<customized_copy_objects(self, done.objects)>>,
                          done.used, done.warn)
        Active(source, active) ==
            Done(active,
                 FetchObjects(self, source, active.yielded, diff,
                              skip_incompatible_objects,
                              [err |-> "", objects |-> <<>>, used |-> {},
                               warn |-> {}]))
        Combined(combined) ==
            IF combined.err # "" THEN Raised(combined.err, {}, {})
            ELSE Active(customized_copy_objects(self, combined.objects),
                        master_active_objects(self.objects))
    IN Combined(CombinedObjects(self, srcs, skip_incompatible_objects))

IncludeName == <<"i", "n", "c", "l", "u", "d", "e">>

\* scope.all_definitions() without select_tmp: every active definition
RECURSIVE AllDefinitionsAnyTmp(_, _, _)
AllDefinitionsAnyTmp(objs, parent_path, used) ==
    IF objs = <<>> THEN <<>>
    ELSE LET object == Head(objs)
             rest == AllDefinitionsAnyTmp(Tail(objs), parent_path, used)
         IN IF object.is_disabled THEN rest
            ELSE IF is_scope(object)
            THEN AllDefinitionsAnyTmp(object.objects,
                                      parent_path \o object.name \o Dot, used) \o rest
            ELSE IF object.name = IncludeName THEN rest
            ELSE <<parent_path \o object.name>> \o rest

\* scope.all_definitions(select_tmp=False) after assign_tmp(value=False,
\* active_only=True): the paths of the active definitions whose tmp no
\* fetch_value and no substitution set to True
RECURSIVE AllDefinitions(_, _, _)
AllDefinitions(objs, parent_path, used) ==
    IF objs = <<>> THEN <<>>
    ELSE LET object == Head(objs)
             rest == AllDefinitions(Tail(objs), parent_path, used)
         IN IF object.is_disabled THEN rest
            ELSE IF is_scope(object)
            THEN AllDefinitions(object.objects, parent_path \o object.name \o Dot,
                                used) \o rest
            ELSE IF object.oid \in used \/ object.name = IncludeName
            THEN rest
            ELSE <<parent_path \o object.name>> \o rest

\* scope.fetch(sources=..., track_unused_definitions=True): the pair it returns
fetch_tracking(self, srcs, diff, skip_incompatible_objects) ==
    LET Fetched(r, combined) ==
            [err |-> r.err, res |-> r.res, used |-> r.used, warn |-> r.warn,
             unused |-> IF r.err # "" THEN <<>>
                        ELSE AllDefinitions(combined.objects, <<>>, r.used)]
    IN Fetched(fetch(self, srcs, diff, skip_incompatible_objects),
               CombinedObjects(self, srcs, skip_incompatible_objects))

-----------------------------------------------------------------------------
(* The trees the operations are applied to *)

MaxObjs == 2
MaxSources == 2

Name(c) == <<c>>
Value(c) == <<Unquoted(<<c>>)>>
Ref(c) == <<Unquoted(<<"$", c>>)>>

Plain(name, words) == definition(name, words, FALSE, "None", FALSE, FALSE, NoneS)
Disabled(name, words) == definition(name, words, TRUE, "None", FALSE, FALSE, NoneS)
Deprecated(name, words) == definition(name, words, FALSE, "None", FALSE, TRUE, NoneS)
Multiple(name, words) == definition(name, words, FALSE, "None", TRUE, FALSE, NoneS)
MultipleRequired(name, words) ==
    definition(name, words, FALSE, "False", TRUE, FALSE, NoneS)
Braces(name, objects) == scope(name, objects, FALSE, "None", FALSE, NoneS)
MultipleBraces(name, objects) == scope(name, objects, FALSE, "None", TRUE, NoneS)
\* "s.a = 1": scope.adopt makes the scope s around the definition a
Dotted(name, object) ==
    Braces(name, <<[object EXCEPT !.merge_names = TRUE]>>)

\* all sequences over S of length 0..n
RECURSIVE SeqsUpTo(_, _)
SeqsUpTo(S, n) ==
    IF n = 0 THEN {<<>>}
    ELSE LET shorter == SeqsUpTo(S, n - 1)
         IN shorter \cup {Append(s, x) : s \in shorter, x \in S}

ParseAll(lists) == [t \in 1..Len(lists) |-> parse(t, lists[t])]

\* masters without multiple children: plain and deprecated definitions, at
\* the top and inside a scope
FetchMasters ==
    { <<Plain(Name("a"), Value("1"))>>,
      <<Deprecated(Name("a"), Value("1"))>>,
      <<Plain(Name("a"), Value("1")), Plain(Name("b"), Value("2"))>>,
      <<Braces(Name("s"), <<Plain(Name("a"), Value("1")),
                            Deprecated(Name("b"), Value("2"))>>)>>,
      <<Dotted(Name("s"), Plain(Name("a"), Value("1"))),
        Dotted(Name("s"), Plain(Name("b"), Value("2")))>> }

FetchSourceDefinitions ==
    {Plain(Name(n), Value(v)) : n \in {"a", "b", "s"}, v \in {"1", "2"}}
    \cup {Plain(Name("a"), Ref("b")), Disabled(Name("a"), Value("2")),
          Plain(IncludeName, Value("1"))}

FetchSourceObjects ==
    FetchSourceDefinitions
    \cup {Braces(Name(n), <<d>>) :
            n \in {"a", "s"},
            d \in {Plain(Name("a"), Value("1")), Plain(Name("a"), Value("2")),
                   Plain(Name("b"), Value("1")), Plain(Name("a"), Ref("b"))}}
    \cup {Dotted(Name("s"), Plain(Name("a"), Value("2")))}

\* one source of up to MaxObjs objects, or up to MaxSources sources of up to
\* one object each
FetchSources ==
    {<<s>> : s \in SeqsUpTo(FetchSourceObjects, MaxObjs)}
    \cup SeqsUpTo(SeqsUpTo(FetchSourceObjects, 1), MaxSources)

InitFetch ==
    /\ master \in {parse(0, m) : m \in FetchMasters}
    /\ sources \in {ParseAll(s) : s \in FetchSources}
    /\ env = [n \in {} |-> <<>>]
    /\ op = "init"
    /\ args = <<>>
    /\ out = <<>>

\* master.fetch(sources=sources, diff=..., skip_incompatible_objects=...,
\*              track_unused_definitions=True)
Fetch(diff, skip_incompatible_objects) ==
    /\ op = "init"
    /\ op' = "fetch"
    /\ args' = [diff |-> diff, skip_incompatible_objects |-> skip_incompatible_objects]
    /\ out' = fetch_tracking(master, sources, diff, skip_incompatible_objects)
    /\ UNCHANGED <<master, sources, env>>

\* master.fetch(source=master.fetch(source=source, diff=True)), beside
\* master.fetch(source=source)
DiffReapply ==
    /\ op = "init"
    /\ Len(sources) = 1
    /\ op' = "diff_reapply"
    /\ args' = <<>>
    /\ out' = LET Reapplied(difference) ==
                    [full |-> fetch(master, sources, FALSE, FALSE),
                     diff |-> difference,
                     reapplied |-> IF difference.err # "" THEN difference
                                   ELSE fetch(master, difference.res, FALSE, FALSE)]
              IN Reapplied(fetch(master, sources, TRUE, FALSE))
    /\ UNCHANGED <<master, sources, env>>

NextFetch ==
    \E diff \in BOOLEAN, skip_incompatible_objects \in BOOLEAN :
        Fetch(diff, skip_incompatible_objects)

SpecFetch == InitFetch /\ [][NextFetch]_vars

\* the same trees, one source at a time, under the diff round trip
InitDiff == InitFetch /\ Len(sources) = 1

NextDiff == DiffReapply

SpecDiff == InitDiff /\ [][NextDiff]_vars

-----------------------------------------------------------------------------
(* What the claims speak of, said without the fetch operators: paths are    *)
(* sequences of names, followed through the trees component by component.   *)

\* the active definitions of a master reached through active scopes that are
\* not multiple, each with its path
RECURSIVE MasterDefinitions(_, _)
MasterDefinitions(objs, prefix) ==
    IF objs = <<>> THEN <<>>
    ELSE LET object == Head(objs)
             rest == MasterDefinitions(Tail(objs), prefix)
         IN IF object.is_disabled THEN rest
            ELSE IF object.is_definition
            THEN <<[path |-> Append(prefix, object.name), object |-> object]>> \o rest
            ELSE IF object.multiple THEN rest
            ELSE MasterDefinitions(object.objects, Append(prefix, object.name))
                 \o rest

\* the active nodes at a path, in declaration order; scopes of the same name
\* are read as one
RECURSIVE NodesAt(_, _)
NodesAt(objs, path) ==
    IF objs = <<>> THEN <<>>
    ELSE LET object == Head(objs)
             rest == NodesAt(Tail(objs), path)
         IN IF object.is_disabled \/ object.name # Head(path) THEN rest
            ELSE IF Len(path) = 1 THEN <<object>> \o rest
            ELSE IF object.is_definition THEN rest
            ELSE NodesAt(object.objects, Tail(path)) \o rest

\* the concatenation of all sources' children
SourceChildren == Flatten([t \in 1..Len(sources) |-> sources[t].objects])

RECURSIVE OnlyDefinitions(_)
OnlyDefinitions(objs) ==
    IF objs = <<>> THEN <<>>
    ELSE (IF Head(objs).is_definition THEN <<Head(objs)>> ELSE <<>>)
         \o OnlyDefinitions(Tail(objs))

FetchReturned(diff) == op = "fetch" /\ args.diff = diff /\ out.err = ""

\* the one definition the result holds at the path has these words
ResultHolds(path, words) ==
    LET found == NodesAt(out.res[1].objects, path)
    IN Len(found) = 1 /\ found[1].is_definition /\ found[1].words = words

SourcesSetting(path) ==
    SelectSeq([t \in 1..Len(sources) |-> NodesAt(sources[t].objects, path)],
              LAMBDA nodes : nodes # <<>>)

\* C2 (the docstring of scope.fetch): when the same non-multiple definition
\* is set in more than one of the sources, the value from the first source
\* in the list is the one the result holds.
C2_FirstSourceWins ==
    FetchReturned(FALSE) =>
        \A md \in {MasterDefinitions(master.objects, <<>>)[i] :
                     i \in DOMAIN MasterDefinitions(master.objects, <<>>)} :
            LET setting == SourcesSetting(md.path)
            IN (/\ ~md.object.multiple /\ ~md.object.deprecated
                /\ Len(setting) > 1
                /\ \A k \in DOMAIN setting :
                      OnlyDefinitions(setting[k]) = setting[k])
               => ResultHolds(md.path,
                      resolve_variables(Last(setting[1]), FALSE).words)


\* the source objects without the nodes whose kind is not the kind the
\* master has at the same path
RECURSIVE WithoutIncompatible(_, _)
WithoutIncompatible(master_objects, source_objects) ==
    IF source_objects = <<>> THEN <<>>
    ELSE LET object == Head(source_objects)
             rest == WithoutIncompatible(master_objects, Tail(source_objects))
             same == NodesAt(master_objects, <<object.name>>)
         IN IF object.is_disabled \/ same = <<>> THEN <<object>> \o rest
            ELSE IF same[1].is_definition # object.is_definition THEN rest
            ELSE IF object.is_definition THEN <<object>> \o rest
            ELSE <<[object EXCEPT !.objects =
                      WithoutIncompatible(
                          Flatten([k \in 1..Len(same) |-> same[k].objects]), @)]>>
                 \o rest

SourcesWithoutIncompatible ==
    [t \in 1..Len(sources) |->
        [sources[t] EXCEPT !.objects = WithoutIncompatible(master.objects, @)]]

\* C8: where a master definition meets a source scope, or a master scope a
\* source definition, a fetch without skip_incompatible_objects raises the
\* error, and a fetch with it returns what it returns for the sources without
\* the offending nodes.
C8_IncompatibleIgnored ==
    (op = "fetch" /\ SourcesWithoutIncompatible # sources) =>
        IF ~args.skip_incompatible_objects THEN out.err # ""
        ELSE LET without == fetch(master, SourcesWithoutIncompatible, args.diff, TRUE)
             IN out.err = without.err /\ out.res = without.res


RECURSIVE SourceDefinitions(_, _)
SourceDefinitions(objs, prefix) ==
    IF objs = <<>> THEN <<>>
    ELSE LET object == Head(objs)
             rest == SourceDefinitions(Tail(objs), prefix)
         IN IF object.is_disabled THEN rest
            ELSE IF object.is_definition
            THEN <<[path |-> Append(prefix, object.name), object |-> object]>> \o rest
            ELSE SourceDefinitions(object.objects, Append(prefix, object.name))
                 \o rest

MasterDefinitionPaths ==
    {MasterDefinitions(master.objects, <<>>)[i].path :
        i \in DOMAIN MasterDefinitions(master.objects, <<>>)}

Paths(located) == [i \in 1..Len(located) |-> JoinWith(Dot, located[i].path)]

\* the source definitions a matched source definition takes a variable's
\* value from, directly or through another variable
SubstitutionSources(diff) ==
    UNION {resolve_variables(sd.object, diff).used :
             sd \in {d \in {SourceDefinitions(SourceChildren, <<>>)[i] :
                              i \in DOMAIN SourceDefinitions(SourceChildren, <<>>)} :
                        d.path \in MasterDefinitionPaths}}

\* C5 as the specification states it: the second result of a fetch with
\* track_unused_definitions names exactly the active source definitions
\* whose path matches no master definition, by their full dotted paths.
C5_EveryUnmatchedReported ==
    (op = "fetch" /\ out.err = "") =>
        out.unused = Paths(SelectSeq(SourceDefinitions(SourceChildren, <<>>),
                              LAMBDA sd : sd.path \notin MasterDefinitionPaths))

\* C5, amended: the second result names, in declaration order and by their
\* full dotted paths, exactly the active source definitions that took part
\* in no value-fetch (their path matches no master definition), that no
\* fetched definition drew a variable's value from, and that are not named
\* include; every duplicate of a matched definition took part.
C5_UnusedDefinitions ==
    (op = "fetch" /\ out.err = "") =>
        out.unused = Paths(SelectSeq(SourceDefinitions(SourceChildren, <<>>),
                              LAMBDA sd : /\ sd.path \notin MasterDefinitionPaths
                                          /\ sd.object.oid \notin
                                                SubstitutionSources(args.diff)
                                          /\ sd.object.name # IncludeName))

\* a source with a definition the master does not have, reported, and a
\* definition the master has, not reported
C5_Witness ==
    /\ op = "fetch" /\ out.err = ""
    /\ Len(out.unused) = 1
    /\ \E md \in {MasterDefinitions(master.objects, <<>>)[i] :
                     i \in DOMAIN MasterDefinitions(master.objects, <<>>)} :
          /\ Len(OnlyDefinitions(NodesAt(SourceChildren, md.path))) = 1
          /\ JoinWith(Dot, md.path) # out.unused[1]


\* C4: diff-then-reapply.  Whenever master.fetch(source) returns, fetching
\* the master against master.fetch(source, diff=True) returns a tree with
\* the same extracted values.
C4_DiffThenReapply ==
    (op = "diff_reapply" /\ out.full.err = "") =>
        /\ out.reapplied.err = ""
        /\ extract(out.reapplied.res[1]) = extract(out.full.res[1])


-----------------------------------------------------------------------------
(* Masters with multiple children *)

MultiMasters ==
    { <<Multiple(Name("a"), Value("1"))>>,
      <<Multiple(Name("a"), Value("1")), Multiple(Name("a"), Value("2"))>>,
      <<MultipleRequired(Name("a"), Value("1"))>>,
      <<MultipleBraces(Name("s"), <<Plain(Name("a"), Value("1"))>>)>>,
      <<Braces(Name("s"), <<Multiple(Name("a"), Value("1"))>>)>>,
      <<Braces(Name("s"), <<Plain(Name("a"), Value("1"))>>),
        Multiple(Name("a"), Value("1"))>> }

MultiSourceObjects ==
    {Plain(Name("a"), Value(v)) : v \in {"1", "2", "3"}}
    \cup {Braces(Name("s"), <<Plain(Name("a"), Value(v))>>) : v \in {"1", "2", "3"}}

MultiSources == SeqsUpTo(SeqsUpTo(MultiSourceObjects, MaxObjs), MaxSources)

InitMulti ==
    /\ master \in {parse(0, m) : m \in MultiMasters}
    /\ sources \in {ParseAll(s) : s \in MultiSources}
    /\ env = [n \in {} |-> <<>>]
    /\ op = "init"
    /\ args = <<>>
    /\ out = <<>>

SpecMulti == InitMulti /\ [][NextFetch]_vars

\* the multiple children of a master that fetch iterates over (the first
\* active object of each name), reached through active scopes that are not
\* multiple, each with its path
RECURSIVE MasterMultiples(_, _, _)
MasterMultiples(objs, i, prefix) ==
    IF i > Len(objs) THEN <<>>
    ELSE LET object == objs[i]
             rest == MasterMultiples(objs, i + 1, prefix)
         IN IF object.is_disabled \/ FirstActiveNamed(objs, object.name) # i
            THEN rest
            ELSE IF object.multiple
            THEN <<[path |-> Append(prefix, object.name), object |-> object]>> \o rest
            ELSE IF object.is_definition THEN rest
            ELSE MasterMultiples(object.objects, 1, Append(prefix, object.name))
                 \o rest

\* what fetching the multiple master child against one node gives, and its
\* canonical serialized form
Candidate(master_object, node) ==
    IF master_object.is_definition
    THEN definition_fetch(master_object, node, args.diff,
                          args.skip_incompatible_objects).res
    ELSE fetch(master_object, <<node>>, args.diff,
               args.skip_incompatible_objects).res

Canonical(master_object, entry) == ExtractFormatAsStr(master_object, entry).str

\* the candidates that are realized: the master's own later siblings and
\* then the matching sources, without the ones that say what the master
\* says (in a diff: or what a sibling in the master says), and of equal
\* ones the last only
RealizedCandidates(mm) ==
    LET own == Tail(NodesAt(master.objects, mm.path))
        matching == NodesAt(SourceChildren, mm.path)
        form(node) == Canonical(mm.object, Candidate(mm.object, node))
        empty(node) == IF mm.object.is_definition
                       THEN Candidate(mm.object, node) = <<>>
                       ELSE Len(Candidate(mm.object, node)[1].objects) = 0
        told(node) ==
            \/ args.diff /\ empty(node)
            \/ form(node) = Canonical(mm.object, <<>>)
        all == IF args.diff
               THEN SelectSeq(matching, LAMBDA node :
                        /\ ~told(node)
                        /\ \A k \in DOMAIN own : told(own[k]) \/ form(own[k]) # form(node))
               ELSE SelectSeq(own \o matching, LAMBDA node : ~told(node))
        last == {i \in DOMAIN all : \A j \in DOMAIN all : j > i => form(all[j]) # form(all[i])}
    IN [k \in 1..Cardinality(last) |->
          Candidate(mm.object,
              all[CHOOSE i \in last : Cardinality({j \in last : j <= i}) = k])[1]]

\* the entries of the result for a multiple master child, without the copy
\* of the master a non-diff fetch puts first
RealizedEntries(mm) ==
    LET found == NodesAt(out.res[1].objects, mm.path)
    IN IF args.diff THEN found ELSE Tail(found)

\* C6: in the result of a fetch the realized entries of a multiple master
\* child differ pairwise in canonical serialized form, and they are the
\* candidates in the order of their last occurrences: of equal candidates
\* the later one is kept, in its place, and the earlier one is dropped.
C6_MultipleDedup ==
    (op = "fetch" /\ out.err = "") =>
        \A mm \in {MasterMultiples(master.objects, 1, <<>>)[i] :
                     i \in DOMAIN MasterMultiples(master.objects, 1, <<>>)} :
            LET realized == RealizedEntries(mm)
            IN /\ \A i, j \in DOMAIN realized :
                     i # j => Canonical(mm.object, <<realized[i]>>)
                              # Canonical(mm.object, <<realized[j]>>)
               /\ realized = RealizedCandidates(mm)

\* two sources with the same extra entry, "a = 2": the result holds it once,
\* after the "a = 3" that the first source has after it
C6_Witness ==
    /\ FetchReturned(FALSE)
    /\ Len(sources) = 2
    /\ \E mm \in {MasterMultiples(master.objects, 1, <<>>)[i] :
                     i \in DOMAIN MasterMultiples(master.objects, 1, <<>>)} :
          LET realized == RealizedEntries(mm)
          IN /\ mm.object.is_definition
             /\ Len(NodesAt(sources[1].objects, mm.path)) = 2
             /\ Len(NodesAt(sources[2].objects, mm.path)) = 1
             /\ NodesAt(sources[1].objects, mm.path)[1].words
                = NodesAt(sources[2].objects, mm.path)[1].words
             /\ Len(realized) = 2
             /\ realized[1].words = NodesAt(sources[1].objects, mm.path)[2].words
             /\ realized[2].words = NodesAt(sources[2].objects, mm.path)[1].words


-----------------------------------------------------------------------------
(* A master fetched against itself *)

SelfLeaves ==
    { Plain(Name("a"), Value("1")), Plain(Name("b"), Value("2")),
      Plain(Name("b"), Ref("a")),
      Multiple(Name("a"), Value("1")), MultipleRequired(Name("a"), Value("1")),
      Deprecated(Name("a"), Value("1")), Disabled(Name("a"), Value("1")) }

SelfObjects ==
    SelfLeaves
    \cup {Braces(Name("s"), <<d>>) : d \in SelfLeaves}
    \cup {MultipleBraces(Name("s"), <<Plain(Name("a"), Value("1"))>>),
          MultipleBraces(Name("s"), <<Plain(Name("a"), Value("2"))>>),
          Braces(Name("s"), <<Plain(Name("a"), Value("2"))>>),
          Dotted(Name("s"), Plain(Name("a"), Value("1"))),
          Dotted(Name("s"), Plain(Name("b"), Value("2")))}

InitSelf ==
    /\ master \in {parse(0, m) : m \in SeqsUpTo(SelfObjects, MaxObjs)}
    /\ sources = <<>>
    /\ env = [n \in {} |-> <<>>]
    /\ op = "init"
    /\ args = <<>>
    /\ out = <<>>

\* master.fetch(source=master, diff=...)
FetchSelf(diff) ==
    /\ op = "init"
    /\ op' = "fetch_self"
    /\ args' = [diff |-> diff]
    /\ out' = fetch(master, <<master>>, diff, FALSE)
    /\ UNCHANGED <<master, sources, env>>

NextSelf == \E diff \in BOOLEAN : FetchSelf(diff)

SpecSelf == InitSelf /\ [][NextSelf]_vars

SelfFetched == op = "fetch_self" /\ ~args.diff /\ out.err = ""

\* no object of the tree, at any depth, is multiple, deprecated or disabled,
\* or refers to a variable
RECURSIVE AllPlain(_)
AllPlain(objs) ==
    \A i \in DOMAIN objs :
        /\ ~objs[i].is_disabled /\ ~objs[i].deprecated /\ ~objs[i].multiple
        /\ \A w \in DOMAIN objs[i].words : "$" \notin
              {objs[i].words[w].value[c] : c \in DOMAIN objs[i].words[w].value}
        /\ AllPlain(objs[i].objects)

\* C3 as the specification states it: for every master M, with multiple,
\* deprecated or disabled children too, M.fetch(source=M) yields a tree
\* whose extracted values are those of M.
C3_FetchIdentityEvery ==
    (SelfFetched /\ extract(master) # VCrash) =>
        extract(out.res[1]) = extract(master)

\* C3, amended: for every master M whose objects are all active, not
\* deprecated, not multiple and free of variable references,
\* M.fetch(source=M) yields a tree whose extracted values are those of M.
C3_FetchIdentity ==
    (SelfFetched /\ AllPlain(master.objects)) =>
        extract(out.res[1]) = extract(master)

\* a master with two definitions under the scope s, fetched against itself
C3_Witness ==
    /\ SelfFetched /\ AllPlain(master.objects)
    /\ Len(master.objects) = 2
    /\ \A i \in 1..2 : is_scope(master.objects[i]) /\ Len(master.objects[i].objects) = 1
    /\ master.objects[1].objects[1].name # master.objects[2].objects[1].name
    /\ extract(master) # VCrash
    /\ extract(out.res[1]) = extract(master)


-----------------------------------------------------------------------------
(* Masters with siblings of the same name *)

SiblingObjects ==
    { Plain(Name("a"), Value("1")), Plain(Name("a"), Value("2")),
      Multiple(Name("a"), Value("1")), Disabled(Name("a"), Value("1")),
      Braces(Name("a"), <<Plain(Name("b"), Value("1"))>>),
      MultipleBraces(Name("a"), <<Plain(Name("b"), Value("1"))>>),
      Plain(Name("b"), Value("1")) }

InitSiblings ==
    /\ master \in {parse(0, m) : m \in SeqsUpTo(SiblingObjects, MaxObjs)}
    /\ sources = <<>>
    /\ env = [n \in {} |-> <<>>]
    /\ op = "init"
    /\ args = <<>>
    /\ out = <<>>

\* list(master.master_active_objects())
Iterate ==
    /\ op = "init"
    /\ op' = "iterate"
    /\ out' = master_active_objects(master.objects)
    /\ UNCHANGED <<master, sources, env, args>>

\* master.fetch()
FetchDefaults ==
    /\ op = "init"
    /\ op' = "fetch_defaults"
    /\ out' = fetch(master, <<>>, FALSE, FALSE)
    /\ UNCHANGED <<master, sources, env, args>>

\* master.format(python_object=None)
FormatNone ==
    /\ op = "init"
    /\ op' = "format"
    /\ out' = format(master, VNone)
    /\ UNCHANGED <<master, sources, env, args>>

NextSiblings == Iterate \/ FetchDefaults \/ FormatNone

SpecSiblings == InitSiblings /\ [][NextSiblings]_vars


\* the first active sibling of the name of objs[i]
FirstOfName(objs, i) == FirstActiveNamed(objs, objs[i].name)

\* a later active sibling, of either kind, has the name of a first one that
\* is not multiple
DuplicateSibling(objs) ==
    \E i \in DOMAIN objs :
        /\ ~objs[i].is_disabled /\ FirstOfName(objs, i) # i
        /\ ~objs[FirstOfName(objs, i)].multiple

\* a later active definition has the name of a first sibling that is not
\* multiple
DuplicateDefinition(objs) ==
    \E i \in DOMAIN objs :
        /\ ~objs[i].is_disabled /\ FirstOfName(objs, i) # i
        /\ ~objs[FirstOfName(objs, i)].multiple
        /\ objs[i].is_definition

Iterated == op \in {"iterate", "fetch_defaults", "format"}

IterationFailed == IF op = "iterate" THEN out.err ELSE out.err # ""

DuplicateRaised ==
    IF op = "iterate" THEN out.err ELSE out.err = "Duplicate definitions"

\* C9 as the specification states it: iterating the active children of a
\* master fails whenever two active siblings, definitions or scopes, share a
\* name and the first is not multiple.
C9_AnyDuplicateFails ==
    (Iterated /\ DuplicateSibling(master.objects)) => IterationFailed

\* C9, amended: iterating the active children of a master raises the
\* duplicate error exactly when a later active definition has the name of a
\* first active sibling that is not multiple, and fetch and format fail
\* then; a later scope of such a name is yielded like any other object, and
\* the later siblings of a first one that is multiple are passed over
\* without error.
C9_DuplicateDefinitionFails ==
    Iterated =>
        /\ DuplicateRaised => DuplicateDefinition(master.objects)
        /\ DuplicateDefinition(master.objects) => IterationFailed
        /\ op = "iterate" =>
            /\ out.err <=> DuplicateDefinition(master.objects)
            /\ ~out.err =>
                 out.yielded =
                    SelectSeq([i \in 1..Len(master.objects) |-> i],
                        LAMBDA i :
                            /\ ~master.objects[i].is_disabled
                            /\ \/ FirstOfName(master.objects, i) = i
                               \/ ~master.objects[FirstOfName(master.objects, i)].multiple)

\* two active definitions of one name, the first not multiple: the error
C9_Witness ==
    /\ op = "iterate" /\ out.err
    /\ \E i, j \in DOMAIN master.objects :
          /\ i < j
          /\ master.objects[i].is_definition /\ master.objects[j].is_definition
          /\ ~master.objects[i].is_disabled /\ ~master.objects[j].is_disabled
          /\ master.objects[i].name = master.objects[j].name
          /\ ~master.objects[i].multiple


-----------------------------------------------------------------------------
(* Trees with variable references *)

\* the word $(t.a)
RefPath(c, d) == <<Unquoted(<<"$", "(", c, ".", d, ")">>)>>

ResolveDefinitions ==
    { Plain(Name("x"), Ref("t")), Plain(Name("x"), RefPath("t", "a")),
      Plain(Name("x"), Ref("x")) }

ResolveObjects ==
    ResolveDefinitions
    \cup { Plain(Name("t"), Value("1")),
           Dotted(Name("t"), Plain(Name("a"), Value("1"))),
           Braces(Name("t"), <<Plain(Name("a"), Value("1"))>>) }
    \cup { Braces(Name("s"), <<d>>) : d \in ResolveDefinitions }
    \cup { Dotted(Name("s"), d) : d \in ResolveDefinitions }
    \cup { Braces(Name("s"), <<Plain(Name("t"), Value("1")),
                               Plain(Name("x"), Ref("t"))>>) }

Environments == { [n \in {} |-> <<>>], [n \in {<<"t">>} |-> <<"2">>] }

InitResolve ==
    /\ master \in {parse(0, m) : m \in SeqsUpTo(ResolveObjects, MaxObjs)}
    /\ sources = <<>>
    /\ env \in Environments
    /\ op = "init"
    /\ args = <<>>
    /\ out = <<>>

\* the definitions of the master tree, by reference
DefinitionRefs ==
    { <<0, i>> : i \in { k \in DOMAIN master.objects :
                            master.objects[k].is_definition } }
    \cup UNION { { <<0, i, j>> : j \in { k \in DOMAIN master.objects[i].objects :
                                    master.objects[i].objects[k].is_definition } } :
                 i \in DOMAIN master.objects }

\* the variable fragments of the words of a definition, in order
RECURSIVE VariablesOf(_)
VariablesOf(words) ==
    IF words = <<>> THEN <<>>
    ELSE (IF Head(words).quote_token = "'" THEN <<>>
          ELSE SelectSeq(variable_substitution_proxy(Head(words)).fragments,
                         LAMBDA f : f.is_variable))
         \o VariablesOf(Tail(words))

\* self.resolve_variables(diff_mode), with what its first call of
\* self.primary_parent_scope.lexical_get(path, stop_id=self.primary_id)
\* returns
Resolve(ref, diff_mode) ==
    /\ op = "init"
    /\ VariablesOf(Deref(ref).words) # <<>>
    /\ op' = "resolve"
    /\ args' = [diff_mode |-> diff_mode]
    /\ out' = LET self == Deref(ref)
                  path == VariablesOf(self.words)[1].value
              IN [self |-> self,
                  path |-> path,
                  substitution_source |->
                      lexical_get(Deref(self.primary_parent_scope), path,
                                  self.primary_id, TRUE),
                  resolved |-> resolve_variables(self, diff_mode)]
    /\ UNCHANGED <<master, sources, env>>

NextResolve ==
    \E ref \in DefinitionRefs, diff_mode \in BOOLEAN : Resolve(ref, diff_mode)

SpecResolve == InitResolve /\ [][NextResolve]_vars

\* the place of one node is before that of another in the text of a tree:
\* a scope is before what it holds
RECURSIVE Before(_, _)
Before(r1, r2) ==
    IF r1 = <<>> THEN r2 # <<>>
    ELSE IF r2 = <<>> THEN FALSE
    ELSE IF Head(r1) # Head(r2) THEN Head(r1) < Head(r2)
    ELSE Before(Tail(r1), Tail(r2))

\* C10: when a definition resolves a variable, the node the lexical lookup
\* returns has a primary_id strictly smaller than that of the definition,
\* and is neither the definition nor declared after it; a node that has no
\* primary_id is taken by its place in the text.
C10_NoForwardReference ==
    (op = "resolve" /\ out.substitution_source # <<>>) =>
        LET found == out.substitution_source[1]
        IN IF found.primary_id = NoId
           THEN Before(found.oid, out.self.oid)
           ELSE /\ found.primary_id < out.self.primary_id
                /\ Before(found.oid, out.self.oid)

\* a node with a primary_id that the lookup returns was
\* declared before the definition, and the definition is not its own source
NumberedSourceBefore ==
    (op = "resolve" /\ out.substitution_source # <<>>) =>
        LET found == out.substitution_source[1]
        IN /\ found.oid # out.self.oid
           /\ found.primary_id # NoId =>
                /\ found.primary_id < out.self.primary_id
                /\ Before(found.oid, out.self.oid)

-----------------------------------------------------------------------------
(* Lookup order of a variable *)

NonDiffResolved == op = "resolve" /\ ~args.diff_mode

\* C11: outside diff mode, a definition whose word is one unquoted variable
\* reference resolves as follows.  When the lexical lookup finds a
\* definition, the result is that definition's resolved words, whatever the
\* environment holds under the name; when it finds a scope, the call fails
\* with "Not a definition"; when it finds nothing, the result is the value
\* of the environment variable as one double-quoted word; and when the
\* environment has no such variable either, the call fails with "Undefined
\* variable" and returns no words.
C11_LexicalBeforeEnvironment ==
    NonDiffResolved =>
        LET found == out.substitution_source
            resolved == out.resolved
        IN IF found # <<>>
           THEN IF ~found[1].is_definition
                THEN resolved.err = "Not a definition" /\ resolved.words = <<>>
                ELSE IF VariablesOf(found[1].words) = <<>>
                THEN resolved.err = "" /\ resolved.words = found[1].words
                ELSE LET sub == resolve_variables(found[1], FALSE)
                     IN /\ resolved.err = sub.err
                        /\ resolved.words = sub.words
           ELSE IF out.path \in DOMAIN env
           THEN resolved.err = "" /\ resolved.words = <<DQuoted(env[out.path])>>
           ELSE resolved.err = "Undefined variable" /\ resolved.words = <<>>

\* a definition and an environment variable of the same name: the
\* definition's words are the result
C11_Witness ==
    /\ NonDiffResolved
    /\ out.substitution_source # <<>>
    /\ out.substitution_source[1].is_definition
    /\ out.path \in DOMAIN env
    /\ out.resolved.err = ""
    /\ out.resolved.words = out.substitution_source[1].words
    /\ out.resolved.words # <<DQuoted(env[out.path])>>

-----------------------------------------------------------------------------
(* Attribute assignment on a scope_extract *)

\* the class scope_extract_attribute_error, as a value
VAttributeError == [t |-> "scope_extract_attribute_error"]

\* a bound method of the class scope_extract, as a value
VMethod == [t |-> "method"]

\* names that getattr finds on the class scope_extract itself
ClassAttributes == {<<"_", "_", "c", "a", "l", "l", "_", "_">>}

\* getattr(self, name, scope_extract_attribute_error)
getattr(self, name) ==
    IF name \in DOMAIN self.attrs THEN self.attrs[name]
    ELSE IF name \in ClassAttributes THEN VMethod
    ELSE VAttributeError

\* scope_extract.__setattr__(name, value).  err: "" or the exception raised
scope_extract_setattr(self, name, value) ==
    IF getattr(self, name) = VAttributeError
    THEN [err |-> "AttributeError", node |-> self]
    ELSE [err |-> "", node |-> VScope(SetAttr(self.attrs, name, value))]

\* scope_extract.__inject__(name, value)
scope_extract_inject(self, name, value) ==
    IF getattr(self, name) # VAttributeError
    THEN [err |-> "AttributeError", node |-> self]
    ELSE [err |-> "", node |-> VScope(SetAttr(self.attrs, name, value))]

\* hasattr(self, name)
hasattr(self, name) == name \in DOMAIN self.attrs \/ name \in ClassAttributes

AttrMasters ==
    { <<>>, <<Plain(Name("a"), Value("1"))>>,
      <<Plain(Name("a"), Value("1")), Braces(Name("s"), <<>>)>> }

AttrNames == {Name("a"), Name("b")} \cup ClassAttributes

AttrValues == {VNone, VStrings(<<Name("2")>>), VAttributeError}

\* master.extract(), before any assignment
InitAttrs ==
    /\ master \in {parse(0, m) : m \in AttrMasters}
    /\ sources = <<>>
    /\ env = [n \in {} |-> <<>>]
    /\ op = "init"
    /\ args = <<>>
    /\ out = [node |-> extract(master), before |-> extract(master),
              initial |-> {n \in AttrNames : hasattr(extract(master), n)},
              injected |-> {}, err |-> ""]

\* node.<name> = value
SetAttribute(name, value) ==
    /\ op' = "setattr"
    /\ args' = [name |-> name, value |-> value]
    /\ out' = LET Assigned(r) ==
                    [node |-> r.node, before |-> out.node,
                     initial |-> out.initial, injected |-> out.injected,
                     err |-> r.err]
              IN Assigned(scope_extract_setattr(out.node, name, value))
    /\ UNCHANGED <<master, sources, env>>

\* node.__inject__(name, value)
Inject(name, value) ==
    /\ op' = "inject"
    /\ args' = [name |-> name, value |-> value]
    /\ out' = LET Injected(r) ==
                    [node |-> r.node, before |-> out.node,
                     initial |-> out.initial,
                     injected |-> IF r.err = "" THEN out.injected \cup {name}
                                  ELSE out.injected,
                     err |-> r.err]
              IN Injected(scope_extract_inject(out.node, name, value))
    /\ UNCHANGED <<master, sources, env>>

NextAttrs ==
    \E name \in AttrNames, value \in AttrValues :
        SetAttribute(name, value) \/ Inject(name, value)

SpecAttrs == InitAttrs /\ [][NextAttrs]_vars

\* the names under which the node has an attribute
AttributeNames(node) == {n \in AttrNames : hasattr(node, n)}

\* C12: after any sequence of assignments and __inject__ calls the attribute
\* names of the node are the initial ones and the injected ones; an
\* assignment to a name the node does not have raises AttributeError and
\* changes nothing, an assignment to a name it has replaces the value under
\* that name and nothing else; __inject__ of a name the node has raises
\* AttributeError and changes nothing, __inject__ of a name it does not have
\* adds the name with the value.
C12_AssignOnlyExisting ==
    /\ AttributeNames(out.node) = out.initial \cup out.injected
    /\ op = "setattr" =>
          IF hasattr(out.before, args.name)
          THEN /\ out.err = ""
               /\ out.node = VScope(SetAttr(out.before.attrs, args.name, args.value))
          ELSE out.err = "AttributeError" /\ out.node = out.before
    /\ op = "inject" =>
          IF hasattr(out.before, args.name)
          THEN out.err = "AttributeError" /\ out.node = out.before
          ELSE /\ out.err = ""
               /\ out.node = VScope(SetAttr(out.before.attrs, args.name, args.value))

\* the set of attribute names by itself
AttributeNamesKept == AttributeNames(out.node) = out.initial \cup out.injected

-----------------------------------------------------------------------------
(* Include files: parse(file_name=..., process_includes=True) *)

Slash == <<"/">>

\* os.path.isabs
isabs(path) == StartsWith(path, Slash)

\* str.split("/")
RECURSIVE SplitPath(_, _)
SplitPath(path, component) ==
    IF path = <<>> THEN <<component>>
    ELSE IF Head(path) = "/" THEN <<component>> \o SplitPath(Tail(path), <<>>)
    ELSE SplitPath(Tail(path), Append(component, Head(path)))

\* the loop of os.path.normpath over the components
RECURSIVE NormComponents(_, _, _)
NormComponents(comps, absolute, new_comps) ==
    IF comps = <<>> THEN new_comps
    ELSE LET comp == Head(comps)
         IN IF comp = <<>> \/ comp = <<".">>
            THEN NormComponents(Tail(comps), absolute, new_comps)
            ELSE IF comp # <<".", ".">>
                    \/ (~absolute /\ new_comps = <<>>)
                    \/ (new_comps # <<>> /\ Last(new_comps) = <<".", ".">>)
            THEN NormComponents(Tail(comps), absolute, Append(new_comps, comp))
            ELSE IF new_comps # <<>>
            THEN NormComponents(Tail(comps), absolute,
                                SubSeq(new_comps, 1, Len(new_comps) - 1))
            ELSE NormComponents(Tail(comps), absolute, new_comps)

\* os.path.normpath, for paths that do not start with two slashes
normpath(path) ==
    LET Joined(comps) ==
            IF isabs(path) THEN Slash \o JoinWith(Slash, comps)
            ELSE IF comps = <<>> THEN <<".">>
            ELSE JoinWith(Slash, comps)
    IN Joined(NormComponents(SplitPath(path, <<>>), isabs(path), <<>>))

\* os.path.join(a, b)
join(a, b) ==
    IF isabs(b) THEN b
    ELSE IF a = <<>> \/ Last(a) = "/" THEN a \o b
    ELSE a \o Slash \o b

\* os.getcwd()
Cwd == <<"/", "d">>

\* os.path.abspath
abspath(path) == normpath(IF isabs(path) THEN path ELSE join(Cwd, path))

\* os.path.dirname of a normalized absolute path
dirname(path) ==
    LET comps == SplitPath(path, <<>>)
    IN IF Len(comps) <= 2 THEN Slash
       ELSE JoinWith(Slash, SubSeq(comps, 1, Len(comps) - 1))

\* str.lower
lower(s) ==
    [i \in 1..Len(s) |->
        CASE s[i] = "F" -> "f" [] s[i] = "I" -> "i" [] s[i] = "L" -> "l"
          [] s[i] = "E" -> "e" [] OTHER -> s[i]]

\* the files that exist, by normalized absolute path: FilePaths[t] holds
\* what parses to sources[t]
FilePaths == << <<"/", "d", "/", "a">>, <<"/", "d", "/", "b">> >>

FileOf(normalized) == CHOOSE t \in DOMAIN FilePaths : FilePaths[t] = normalized

\* open(file_name) finds a file
isfile(file_name) == \E t \in DOMAIN FilePaths : FilePaths[t] = abspath(file_name)

\* the statement: include <type> <file_name>
Include(type, file_name) ==
    Plain(IncludeName, <<Unquoted(type), Unquoted(file_name)>>)

FileType == <<"f", "i", "l", "e">>

\* the test on the innermost open file alone
OnTopOfStack(file_name_normalized, include_stack) ==
    include_stack # <<>> /\ Last(include_stack) = file_name_normalized

\* file_name_normalized in include_stack
OnStack(file_name_normalized, include_stack) ==
    \E i \in DOMAIN include_stack : include_stack[i] = file_name_normalized

\* one frame of the recursion: a parse call (kind "file") or the
\* process_includes call of a nested scope (kind "scope"); todo holds the
\* objects the loop has not reached, result the list it is building
Frame(kind, node, reference_directory, todo) ==
    [kind |-> kind, node |-> node, reference_directory |-> reference_directory,
     todo |-> todo, result |-> <<>>]

\* the state of a run without open calls
Halted(run, err, chain) ==
    [run EXCEPT !.err = err, !.chain = chain, !.frames = <<>>]

\* parse(file_name=file_name, process_includes=True,
\*       include_stack=include_stack) up to its call of process_includes.
\* checked: include_stack is not None
EnterFile(run, file_name, checked) ==
    LET file_name_normalized == normpath(abspath(file_name))
        entered == [run EXCEPT !.entered = file_name_normalized,
                               !.before = run.include_stack]
    IN IF ~isfile(file_name)
       THEN Halted(entered, "FileNotFoundError", <<>>)
       ELSE IF checked /\ OnStack(file_name_normalized, run.include_stack)
       THEN Halted(entered, "Include dependency cycle",
                   Append(run.include_stack, file_name_normalized))
       ELSE [entered EXCEPT
               !.include_stack = Append(@, file_name_normalized),
               !.frames = Append(@, Frame("file",
                                          sources[FileOf(file_name_normalized)],
                                          dirname(file_name_normalized),
                                          sources[FileOf(file_name_normalized)].objects))]

\* an end of the calls that leaves the include stack as it is
LeaveFrameNoPop(run) ==
    LET frame == Last(run.frames)
        outer == SubSeq(run.frames, 1, Len(run.frames) - 1)
        done == customized_copy_objects(frame.node, frame.result)
    IN IF outer = <<>>
       THEN [run EXCEPT !.frames = <<>>, !.result = <<done>>]
       ELSE [run EXCEPT
               !.frames = [outer EXCEPT ![Len(outer)].result =
                              IF frame.kind = "file" THEN @ \o done.objects
                              ELSE Append(@, done)]]

\* the end of a process_includes call and of the parse call around it
LeaveFrame(run) ==
    LET frame == Last(run.frames)
        outer == SubSeq(run.frames, 1, Len(run.frames) - 1)
        done == customized_copy_objects(frame.node, frame.result)
        include_stack == IF frame.kind = "file"
                         THEN SubSeq(run.include_stack, 1, Len(run.include_stack) - 1)
                         ELSE run.include_stack
    IN IF outer = <<>>
       THEN [run EXCEPT !.frames = <<>>, !.include_stack = include_stack,
                        !.result = <<done>>]
       ELSE [run EXCEPT
               !.include_stack = include_stack,
               !.frames = [outer EXCEPT ![Len(outer)].result =
                              IF frame.kind = "file" THEN @ \o done.objects
                              ELSE Append(@, done)]]

\* the first object of the innermost loop is done with: it, or what stands
\* for it, is in the result list
Advance(run, objects) ==
    [run EXCEPT !.frames[Len(run.frames)].todo = Tail(@),
                !.frames[Len(run.frames)].result = @ \o objects]

\* one round of the loop of scope.process_includes over an include statement
IncludeStatement(run, object) ==
    LET frame == Last(run.frames)
        Substituted(object_sub) ==
            IF object_sub.err # "" THEN Halted(run, object_sub.err, <<>>)
            ELSE IF Len(object_sub.words) < 2
            THEN Halted(run, "\"include\" must be followed by at least two arguments",
                        <<>>)
            ELSE IF lower(object_sub.words[1].value) = FileType
            THEN IF Len(object_sub.words) # 2
                 THEN Halted(run, "\"include file\" must be followed exactly one argument",
                             <<>>)
                 ELSE EnterFile(Advance(run, <<>>),
                                join(frame.reference_directory,
                                     object_sub.words[2].value),
                                TRUE)
            ELSE IF lower(object_sub.words[1].value) = <<"s", "c", "o", "p", "e">>
            THEN Halted(run, "include scope", <<>>)
            ELSE Halted(run, "Unknown include type", <<>>)
    IN Substituted(resolve_variables(object, FALSE))

IncludeTargets ==
    { <<"a">>, <<".", "/", "a">>, <<".", ".", "/", "d", "/", "b">>, <<"c">> }

IncludeObjects ==
    { Include(FileType, f) : f \in IncludeTargets }
    \cup { Include(<<"F", "I", "L", "E">>, <<"a">>),
           Include(<<"u", "r", "l">>, <<"a">>),
           Plain(IncludeName, <<Unquoted(FileType)>>),
           Disabled(IncludeName, <<Unquoted(FileType), Unquoted(<<"a">>)>>),
           Plain(Name("x"), Value("1")),
           Braces(Name("s"), <<Include(FileType, <<"a">>),
                               Plain(Name("x"), Value("1"))>>) }

\* the names the outermost call is given
TopFileNames == { <<"a">>, <<".", "/", "b">>, <<"/", "d", "/", "a">>, <<"c">> }

InitInclude ==
    /\ master = parse(0, <<>>)
    /\ sources \in {ParseAll(s) :
                       s \in [DOMAIN FilePaths -> SeqsUpTo(IncludeObjects, MaxObjs)]}
    /\ env = [n \in {} |-> <<>>]
    /\ op = "init"
    /\ args = <<>>
    /\ out = [include_stack |-> <<>>, frames |-> <<>>, err |-> "", chain |-> <<>>,
              result |-> <<>>, entered |-> <<>>, before |-> <<>>]

\* parse(file_name=file_name, process_includes=True) begins
ParseFile(file_name) ==
    /\ op = "init"
    /\ op' = "parse"
    /\ args' = [file_name |-> file_name]
    /\ out' = EnterFile(out, file_name, FALSE)
    /\ UNCHANGED <<master, sources, env>>

Running == op # "init" /\ out.frames # <<>>

\* a disabled object or a definition that is no include statement
KeepObject ==
    /\ Running
    /\ Last(out.frames).todo # <<>>
    /\ LET object == Head(Last(out.frames).todo)
       IN /\ object.is_disabled \/ (object.is_definition /\ object.name # IncludeName)
          /\ out' = Advance(out, <<object>>)
    /\ op' = "keep"
    /\ UNCHANGED <<master, sources, env, args>>

\* an include statement
IncludeFile ==
    /\ Running
    /\ Last(out.frames).todo # <<>>
    /\ LET object == Head(Last(out.frames).todo)
       IN /\ ~object.is_disabled /\ object.is_definition /\ object.name = IncludeName
          /\ out' = IncludeStatement(out, object)
    /\ op' = "include"
    /\ UNCHANGED <<master, sources, env, args>>

\* a scope: object.process_includes(...) begins
EnterScope ==
    /\ Running
    /\ Last(out.frames).todo # <<>>
    /\ LET object == Head(Last(out.frames).todo)
       IN /\ ~object.is_disabled /\ ~object.is_definition
          /\ out' = [Advance(out, <<>>) EXCEPT
                        !.frames = Append(@, Frame("scope", object,
                                       Last(out.frames).reference_directory,
                                       object.objects))]
    /\ op' = "scope"
    /\ UNCHANGED <<master, sources, env, args>>

\* the loop of the innermost call is over
Return ==
    /\ Running
    /\ Last(out.frames).todo = <<>>
    /\ out' = LeaveFrame(out)
    /\ op' = "return"
    /\ UNCHANGED <<master, sources, env, args>>

NextInclude ==
    \/ \E file_name \in TopFileNames : ParseFile(file_name)
    \/ KeepObject
    \/ IncludeFile
    \/ EnterScope
    \/ Return

SpecInclude == InitInclude /\ [][NextInclude]_vars

\* the include stack holds no path twice
NoPathTwice(include_stack) ==
    \A i, j \in DOMAIN include_stack :
        i # j => include_stack[i] # include_stack[j]

\* the call that was last begun is of a file that is open already
Reentered ==
    /\ op \in {"parse", "include"}
    /\ out.entered # <<>>
    /\ OnStack(out.entered, out.before)

\* C13: while files are parsed with process_includes, a parse call of a
\* file whose normalized absolute path is on the include stack ends the run
\* with "Include dependency cycle" and the paths of the stack followed by
\* that path, no other call does, and the include stack never holds a path
\* twice.
C13_IncludeCycle ==
    /\ NoPathTwice(out.include_stack)
    /\ Reentered =>
          /\ out.err = "Include dependency cycle"
          /\ out.chain = Append(out.before, out.entered)
          /\ out.frames = <<>>
    /\ out.err = "Include dependency cycle" => Reentered

\* a.phil includes b.phil includes a.phil
C13_Witness ==
    /\ op = "include"
    /\ out.err = "Include dependency cycle"
    /\ out.chain = <<FilePaths[1], FilePaths[2], FilePaths[1]>>

-----------------------------------------------------------------------------
(* Trees without disabled or templated members, extracted and formatted *)

MultipleOptional(name, words) ==
    definition(name, words, FALSE, "True", TRUE, FALSE, NoneS)

PlainNone == <<Unquoted(<<"N", "o", "n", "e">>)>>

RoundLeaves ==
    { Plain(Name("a"), Value("1")), Plain(Name("a"), Value("2")),
      Plain(Name("b"), Value("1")),
      Plain(Name("a"), <<DQuoted(<<"1", " ", "2">>)>>),
      Plain(Name("a"), <<Unquoted(<<"1">>), Unquoted(<<"2">>)>>),
      Plain(Name("a"), PlainNone),
      Multiple(Name("a"), Value("1")), Multiple(Name("a"), Value("2")),
      Multiple(Name("a"), PlainNone), MultipleRequired(Name("b"), Value("1")),
      MultipleOptional(Name("a"), PlainNone) }

RoundObjects ==
    RoundLeaves
    \cup { Braces(Name("s"), <<>>),
           Braces(Name("s"), <<Plain(Name("a"), Value("1"))>>),
           Braces(Name("s"), <<Plain(Name("a"), Value("2"))>>),
           Braces(Name("s"), <<Plain(Name("b"), Value("1"))>>),
           Braces(Name("s"), <<Multiple(Name("a"), Value("1")),
                               Multiple(Name("a"), Value("2"))>>),
           MultipleBraces(Name("s"), <<Plain(Name("a"), Value("1"))>>),
           MultipleBraces(Name("s"), <<Plain(Name("a"), Value("2"))>>),
           MultipleBraces(Name("s"), <<Plain(Name("b"), Value("1"))>>) }

InitRound ==
    /\ master \in {parse(0, m) : m \in SeqsUpTo(RoundObjects, MaxObjs)}
    /\ sources = <<>>
    /\ env = [n \in {} |-> <<>>]
    /\ op = "init"
    /\ args = <<>>
    /\ out = <<>>

\* master.format(master.extract())
ExtractFormat ==
    /\ op = "init"
    /\ op' = "extract_format"
    /\ out' = extract_format(master, master)
    /\ UNCHANGED <<master, sources, env, args>>

NextRound == ExtractFormat

SpecRound == InitRound /\ [][NextRound]_vars

\* the objects that are no template markers (is_template 1 or -1)
RECURSIVE WithoutMarkers(_)
WithoutMarkers(objs) ==
    IF objs = <<>> THEN <<>>
    ELSE (IF Head(objs).is_template # 0 THEN <<>> ELSE <<Head(objs)>>)
         \o WithoutMarkers(Tail(objs))

\* two lists of objects have the same names in the same order, with the
\* same word values and, under scopes, the same structure; template markers
\* are left out
RECURSIVE SameStructure(_, _)
SameStructure(objs1, objs2) ==
    LET left == WithoutMarkers(objs1)
        right == WithoutMarkers(objs2)
    IN /\ Len(left) = Len(right)
       /\ \A i \in DOMAIN left :
             /\ left[i].name = right[i].name
             /\ left[i].is_definition = right[i].is_definition
             /\ WordValues(left[i].words) = WordValues(right[i].words)
             /\ SameStructure(left[i].objects, right[i].objects)

RoundTripped == op = "extract_format"

RECURSIVE RoundTrippable(_)
RoundTrippable(objs) ==
    /\ \A i, j \in DOMAIN objs :
          (i < j /\ objs[i].name = objs[j].name) =>
              /\ objs[i].is_definition /\ objs[i].multiple
              /\ objs[j].is_definition /\ objs[j].multiple
              /\ \A k \in i..j : objs[k].name = objs[i].name
    /\ \A i \in DOMAIN objs :
          /\ ~(objs[i].is_definition /\ objs[i].multiple
                /\ objs[i].optional = "True" /\ is_plain_none(objs[i].words))
          /\ RoundTrippable(objs[i].objects)

-----------------------------------------------------------------------------
(* Names of nodes: the constructors, copy and customized_copy(name=...) *)

\* name.split(".")
RECURSIVE SplitName(_, _)
SplitName(name, component) ==
    IF name = <<>> THEN <<component>>
    ELSE IF Head(name) = "." THEN <<component>> \o SplitName(Tail(name), <<>>)
    ELSE SplitName(Tail(name), Append(component, Head(name)))

\* "include" in name.split(".")
HasIncludeComponent(name) ==
    \E i \in DOMAIN SplitName(name, <<>>) : SplitName(name, <<>>)[i] = IncludeName

\* the checks of definition.__init__ and of scope.__init__ on the name
NameRejected(is_definition, name) ==
    \/ is_reserved_identifier(name)
    \/ IF is_definition THEN name # IncludeName /\ HasIncludeComponent(name)
       ELSE HasIncludeComponent(name)

\* definition(name=..., words=...) and scope(name=...)
Constructed(is_definition, name) ==
    IF NameRejected(is_definition, name)
    THEN [err |-> "Reserved identifier", node |-> <<>>]
    ELSE [err |-> "",
          node |-> <<IF is_definition THEN Plain(name, Value("1"))
                     ELSE Braces(name, <<>>)>>]

\* self.copy(): the slots are passed to the constructor of the class
CopyConstructed(self) ==
    IF NameRejected(self.is_definition, self.name)
    THEN [err |-> "Reserved identifier", node |-> <<>>]
    ELSE [err |-> "", node |-> <<copy(self)>>]

\* self.customized_copy(name=name)
CustomizedCopyName(self, name) ==
    LET Renamed(result) ==
            IF result.err # "" THEN result
            ELSE [err |-> "",
                  node |-> <<[result.node[1] EXCEPT !.name = name,
                                                    !.is_template = 0]>>]
    IN Renamed(CopyConstructed(self))

NodeNames ==
    { <<"a">>, <<"s", ".", "a">>, <<"_", "_", "a", "_", "_">>,
      <<"_", "_", "_", "_">>, <<"_", "_", "a">>, IncludeName,
      <<"a", ".">> \o IncludeName, IncludeName \o <<".", "a">>,
      IncludeName \o <<"s">>, <<"b">>, <<"_", "_", "b", "_", "_">>,
      <<"s", ".", "_", "_", "a", "_", "_">>, <<"_", "_", "a", ".", "b", "_", "_">> }

InitNames ==
    /\ master = parse(0, <<>>)
    /\ sources = <<>>
    /\ env = [n \in {} |-> <<>>]
    /\ op = "init"
    /\ args = <<>>
    /\ out = [err |-> "", node |-> <<>>]

\* definition(name=name, words=...) or scope(name=name)
Construct(is_definition, name) ==
    /\ op = "init"
    /\ op' = "construct"
    /\ args' = [name |-> name, is_definition |-> is_definition]
    /\ out' = Constructed(is_definition, name)
    /\ UNCHANGED <<master, sources, env>>

\* node.copy()
Copy ==
    /\ out.node # <<>>
    /\ op' = "copy"
    /\ args' = [name |-> out.node[1].name, is_definition |-> out.node[1].is_definition]
    /\ out' = CopyConstructed(out.node[1])
    /\ UNCHANGED <<master, sources, env>>

\* node.customized_copy(name=name)
CustomizedCopy(name) ==
    /\ out.node # <<>>
    /\ op' = "customized_copy"
    /\ args' = [name |-> name, is_definition |-> out.node[1].is_definition]
    /\ out' = CustomizedCopyName(out.node[1], name)
    /\ UNCHANGED <<master, sources, env>>

NextNames ==
    \/ \E is_definition \in BOOLEAN, name \in NodeNames :
          Construct(is_definition, name)
    \/ Copy
    \/ \E name \in NodeNames : CustomizedCopy(name)

SpecNames == InitNames /\ [][NextNames]_vars

\* a dunder-style identifier, or a name with a dotted component "include"
ReservedName(name) == is_reserved_identifier(name) \/ HasIncludeComponent(name)

\* C15: a node obtained through a constructor, copy() or
\* customized_copy(name=...) has a name that is no dunder-style identifier
\* and has no dotted component "include"; the call that asks for such a name
\* fails with "Reserved identifier".
C15_NoReservedName ==
    /\ out.node # <<>> => ~ReservedName(out.node[1].name)
    /\ (op \in {"construct", "customized_copy"} /\ ReservedName(args.name)) =>
          out.err = "Reserved identifier"

\* the constructors by themselves, the definition named include aside
ConstructorRejects ==
    op = "construct" =>
        IF ReservedName(args.name) /\ ~(args.is_definition /\ args.name = IncludeName)
        THEN out.err = "Reserved identifier" /\ out.node = <<>>
        ELSE out.err = "" /\ out.node[1].name = args.name

-----------------------------------------------------------------------------
(* Definitions with a .type: try_extract, try_extract_format, validate *)

\* a converter: whether the object has a from_words and an as_words
\* attribute, and the family of values from_words accepts
Converter(phil_type, from_words, as_words) ==
    [phil_type |-> phil_type, from_words |-> from_words, as_words |-> as_words]

TypeNone == [phil_type |-> "None"]
TypeInt == Converter("int", TRUE, TRUE)
TypeStr == Converter("str", TRUE, TRUE)
TypeNoFromWords == Converter("int", FALSE, TRUE)
TypeNoAsWords == Converter("int", TRUE, FALSE)

\* definition(name=..., words=..., type=...)
TypedDefinition(name, words, type) ==
    [f \in DOMAIN Plain(name, words) \cup {"type"} |->
        IF f = "type" THEN type ELSE Plain(name, words)[f]]

VInt(digits) == [t |-> "int", v |-> digits]
VStr(s) == [t |-> "str", v |-> s]

\* self.type.from_words(self.words, master=self) of the int and str
\* converters.  err: "" or the message of the RuntimeError
type_from_words(self) ==
    IF is_plain_none(self.words) THEN [err |-> "", value |-> VNone]
    ELSE IF self.type.phil_type = "int"
    THEN IF Len(self.words) = 1 /\ self.words[1].value # <<>>
            /\ \A i \in DOMAIN self.words[1].value : self.words[1].value[i] \in Digits
         THEN [err |-> "", value |-> VInt(self.words[1].value)]
         ELSE [err |-> "Integer expression expected", value |-> VNone]
    ELSE IF Len(self.words) = 1
    THEN [err |-> "", value |-> VStr(self.words[1].value)]
    ELSE [err |-> "One word expected", value |-> VNone]

\* self.type.as_words(python_object, master=self)
type_as_words(self, python_object) ==
    IF python_object = VNone THEN PlainNone
    ELSE IF python_object.t = "int" THEN <<Unquoted(python_object.v)>>
    ELSE <<DQuoted(python_object.v)>>

\* converters.tokenize_value_literal: the words between blanks, a word in
\* double quotes may hold blanks.  err: "" or the message of the
\* RuntimeError for a quote that is not closed
RECURSIVE TokenizeFrom(_, _, _, _)
TokenizeFrom(s, quoted, value, words) ==
    IF s = <<>>
    THEN IF quoted THEN [err |-> "Syntax error: missing closing quote", words |-> <<>>]
         ELSE [err |-> "",
               words |-> IF value = <<>> THEN words
                         ELSE Append(words, Unquoted(value))]
    ELSE IF quoted
    THEN IF Head(s) = "\""
         THEN TokenizeFrom(Tail(s), FALSE, <<>>, Append(words, DQuoted(value)))
         ELSE TokenizeFrom(Tail(s), TRUE, Append(value, Head(s)), words)
    ELSE IF Head(s) = "\"" /\ value = <<>>
    THEN TokenizeFrom(Tail(s), TRUE, <<>>, words)
    ELSE IF Head(s) = " "
    THEN TokenizeFrom(Tail(s), FALSE, <<>>,
                      IF value = <<>> THEN words ELSE Append(words, Unquoted(value)))
    ELSE TokenizeFrom(Tail(s), FALSE, Append(value, Head(s)), words)

tokenize_value_literal(input_string) == TokenizeFrom(input_string, FALSE, <<>>, <<>>)

\* what a call gives back: the exception it raised, if any, and the proxy
\* it returned otherwise.  "" stands for the error_message None, <<>> for a
\* result (extracted, formatted or tokenized) that is None
RaisedError(message) ==
    [raised |-> message, error_message |-> "", result |-> <<>>]
Proxy(error_message, result) ==
    [raised |-> "", error_message |-> error_message, result |-> result]

\* definition.try_extract
try_extract(self) ==
    IF self.type = TypeNone
    THEN Proxy("", <<strings_from_words(self.words)>>)
    ELSE IF ~self.type.from_words
    THEN RaisedError("does not have a from_words method")
    ELSE LET Converted(r) ==
                IF r.err # "" THEN Proxy(r.err, <<>>)
                ELSE Proxy("", <<r.value>>)
         IN Converted(type_from_words(self))

\* definition.format, with and without .type
typed_format(self, python_object) ==
    IF self.type = TypeNone
    THEN [err |-> "", node |-> <<customized_copy_words(self,
                                     strings_as_words(python_object))>>]
    ELSE IF ~self.type.as_words
    THEN [err |-> "does not have an as_words method", node |-> <<>>]
    ELSE [err |-> "", node |-> <<customized_copy_words(self,
                                     type_as_words(self, python_object))>>]

\* definition.try_extract_format
try_extract_format(self) ==
    LET Formatted(f) ==
            IF f.err # "" THEN RaisedError(f.err) ELSE Proxy("", f.node)
        Extracted(proxy) ==
            IF proxy.raised # "" THEN proxy
            ELSE IF proxy.error_message # "" THEN Proxy(proxy.error_message, <<>>)
            ELSE Formatted(typed_format(self, proxy.result[1]))
    IN Extracted(try_extract(self))

\* definition.try_tokenize
try_tokenize(self, input_string) ==
    LET Tokenized(t) ==
            IF t.err # "" THEN Proxy(t.err, <<>>)
            ELSE Proxy("", <<customized_copy_words(self,
                                    IF Len(t.words) = 0 THEN PlainNone
                                    ELSE t.words)>>)
    IN Tokenized(tokenize_value_literal(input_string))

\* definition.validate
validate(self, input_string) ==
    LET Tokenized(proxy) ==
            IF proxy.error_message # "" THEN proxy
            ELSE try_extract(proxy.result[1])
    IN Tokenized(try_tokenize(self, input_string))

\* definition.validate_and_format
validate_and_format(self, input_string) ==
    LET Tokenized(proxy) ==
            IF proxy.error_message # "" THEN proxy
            ELSE try_extract_format(proxy.result[1])
    IN Tokenized(try_tokenize(self, input_string))

Types == {TypeNone, TypeInt, TypeStr, TypeNoFromWords, TypeNoAsWords}

ValidateWords ==
    { Value("1"), Value("x"), PlainNone, <<DQuoted(<<"1", " ", "2">>)>>,
      <<Unquoted(<<"1">>), Unquoted(<<"2">>)>> }

InputStrings ==
    { <<>>, <<"1">>, <<"x">>, <<"1", " ", "2">>, <<"\"", "x", " ", "1", "\"">>,
      <<"\"", "1">>, <<"N", "o", "n", "e">> }

InitValidate ==
    /\ master = parse(0, <<>>)
    /\ sources = <<>>
    /\ env = [n \in {} |-> <<>>]
    /\ op = "init"
    /\ args = <<>>
    /\ out = <<>>

\* definition(..., words=words, type=type).try_extract()
TryExtract(words, type) ==
    /\ op = "init"
    /\ op' = "try_extract"
    /\ args' = [self |-> TypedDefinition(Name("a"), words, type)]
    /\ out' = try_extract(TypedDefinition(Name("a"), words, type))
    /\ UNCHANGED <<master, sources, env>>

\* definition(..., words=words, type=type).try_extract_format()
TryExtractFormat(words, type) ==
    /\ op = "init"
    /\ op' = "try_extract_format"
    /\ args' = [self |-> TypedDefinition(Name("a"), words, type)]
    /\ out' = try_extract_format(TypedDefinition(Name("a"), words, type))
    /\ UNCHANGED <<master, sources, env>>

\* definition(..., type=type).validate(input_string)
Validate(type, input_string) ==
    /\ op = "init"
    /\ op' = "validate"
    /\ args' = [self |-> TypedDefinition(Name("a"), Value("1"), type),
                input_string |-> input_string]
    /\ out' = validate(TypedDefinition(Name("a"), Value("1"), type), input_string)
    /\ UNCHANGED <<master, sources, env>>

\* definition(..., type=type).validate_and_format(input_string)
ValidateAndFormat(type, input_string) ==
    /\ op = "init"
    /\ op' = "validate_and_format"
    /\ args' = [self |-> TypedDefinition(Name("a"), Value("1"), type),
                input_string |-> input_string]
    /\ out' = validate_and_format(TypedDefinition(Name("a"), Value("1"), type),
                                  input_string)
    /\ UNCHANGED <<master, sources, env>>

NextValidate ==
    \/ \E words \in ValidateWords, type \in Types : TryExtract(words, type)
    \/ \E words \in ValidateWords, type \in Types : TryExtractFormat(words, type)
    \/ \E type \in Types, input_string \in InputStrings : Validate(type, input_string)
    \/ \E type \in Types, input_string \in InputStrings :
          ValidateAndFormat(type, input_string)

SpecValidate == InitValidate /\ [][NextValidate]_vars

Validated ==
    op \in {"try_extract", "try_extract_format", "validate", "validate_and_format"}

\* C16: validate, try_extract and try_extract_format raise nothing, whatever
\* the value and the declared type, a type without from_words included; the
\* proxy they return has either an error_message and the result None or the
\* error_message None.
C16_NeverRaises ==
    Validated =>
        /\ out.raised = ""
        /\ out.error_message # "" => out.result = <<>>

\* what holds of the code: the calls raise only for a type that lacks a hook
RaisesForMissingHook ==
    Validated =>
        /\ out.raised # "" =>
              /\ args.self.type # TypeNone
              /\ ~args.self.type.from_words \/ ~args.self.type.as_words
        /\ out.error_message # "" => out.result = <<>>

-----------------------------------------------------------------------------
(* Template markers of multiple children *)

\* the is_template values of the nodes of a tree, the nodes inside included
RECURSIVE TemplateFlags(_)
TemplateFlags(objs) ==
    UNION {{objs[i].is_template} \cup TemplateFlags(objs[i].objects) :
              i \in DOMAIN objs}

\* the is_template of the marker of a multiple master child, given whether
\* something counts as matched
MarkerFlag(master_object, matched) ==
    IF master_object.optional = "False" THEN 0
    ELSE IF matched THEN -1 ELSE 1

\* the result of a non-diff fetch holds, for the multiple master child mm,
\* first one copy of it with the given is_template and then its realized
\* entries, none of them a marker
MarkerFirst(mm, matched) ==
    LET found == NodesAt(out.res[1].objects, mm.path)
    IN /\ Len(found) >= 1
       /\ found[1] = [copy(mm.object) EXCEPT
                         !.is_template = MarkerFlag(mm.object, matched)]
       /\ \A k \in 2..Len(found) : found[k].is_template = 0

\* C17 as stated: the marker is -1 if a source object matched, 1 if none did
C17_MarkerBySourceMatch ==
    /\ FetchReturned(FALSE) =>
          \A mm \in {MasterMultiples(master.objects, 1, <<>>)[i] :
                       i \in DOMAIN MasterMultiples(master.objects, 1, <<>>)} :
              MarkerFirst(mm, NodesAt(SourceChildren, mm.path) # <<>>)
    /\ FetchReturned(TRUE) => TemplateFlags(out.res[1].objects) \subseteq {0}

\* C17: a non-diff fetch puts, for each multiple master child it iterates
\* over, exactly one copy of the child before the child's realized entries,
\* with is_template 0 if the child has optional=False, else -1 if there is
\* a realized entry and 1 if there is none; a diff fetch emits no marker.
C17_TemplateMarker ==
    /\ FetchReturned(FALSE) =>
          \A mm \in {MasterMultiples(master.objects, 1, <<>>)[i] :
                       i \in DOMAIN MasterMultiples(master.objects, 1, <<>>)} :
              MarkerFirst(mm, RealizedEntries(mm) # <<>>)
    /\ FetchReturned(TRUE) => TemplateFlags(out.res[1].objects) \subseteq {0}

\* a source repeats the master's value and another gives a new one: the
\* marker is -1 and one entry follows it
C17_Witness ==
    /\ FetchReturned(FALSE)
    /\ \E mm \in {MasterMultiples(master.objects, 1, <<>>)[i] :
                     i \in DOMAIN MasterMultiples(master.objects, 1, <<>>)} :
          /\ mm.object.optional # "False"
          /\ Len(NodesAt(SourceChildren, mm.path)) = 2
          /\ Len(NodesAt(out.res[1].objects, mm.path)) = 2
          /\ NodesAt(out.res[1].objects, mm.path)[1].is_template = -1

-----------------------------------------------------------------------------
(* A diff under two environments *)

EnvMaster == <<Plain(Name("x"), Value("0")), Plain(Name("b"), Value("0"))>>

EnvObjects ==
    { Plain(Name("x"), Ref("t")), Plain(Name("x"), Ref("b")),
      Plain(Name("b"), Ref("t")), Plain(Name("b"), Value("1")),
      Plain(Name("x"), <<DQuoted(<<"a", " ", "$", "b">>)>>),
      Plain(Name("x"), Value("1")) }

ProcessEnvironments ==
    { [n \in {} |-> <<>>], [n \in {<<"t">>} |-> <<"2">>],
      [n \in {<<"t">>} |-> <<"3">>] }

InitEnv ==
    /\ master = parse(0, EnvMaster)
    /\ sources \in {ParseAll(<<s>>) : s \in SeqsUpTo(EnvObjects, MaxObjs)}
    /\ env \in ProcessEnvironments
    /\ op = "init"
    /\ args = <<>>
    /\ out = <<>>

\* master.fetch(sources=sources, diff=True), the first run
FetchDiffFirst ==
    /\ op = "init"
    /\ op' = "first"
    /\ args' = [diff |-> TRUE, skip_incompatible_objects |-> FALSE]
    /\ out' = [environ |-> env, first |-> fetch(master, sources, TRUE, FALSE)]
    /\ UNCHANGED <<master, sources, env>>

\* os.environ changes between the runs
Putenv(environ) ==
    /\ op = "first"
    /\ environ # env
    /\ op' = "putenv"
    /\ env' = environ
    /\ UNCHANGED <<master, sources, args, out>>

\* master.fetch(sources=sources, diff=True), the second run
FetchDiffSecond ==
    /\ op = "putenv"
    /\ op' = "second"
    /\ out' = [environ |-> out.environ, first |-> out.first,
               second |-> fetch(master, sources, TRUE, FALSE)]
    /\ UNCHANGED <<master, sources, env, args>>

NextEnv ==
    \/ FetchDiffFirst
    \/ \E environ \in ProcessEnvironments : Putenv(environ)
    \/ FetchDiffSecond

SpecEnv == InitEnv /\ [][NextEnv]_vars

\* C18: two runs of fetch with diff=True on the same master and sources,
\* under different environments, end the same way: both fail or both
\* return the same tree, in which a variable without lexical match stands
\* as the placeholder $name.
C18_DiffEnvironmentIndependent ==
    op = "second" =>
        /\ out.second.err = out.first.err
        /\ out.second.res = out.first.res

\* no variable of a definition of the source is found in the source, so
\* none is reached through another
NoneLexicallyResolved ==
    \A i \in DOMAIN sources[1].objects :
        LET self == sources[1].objects[i]
            variables == VariablesOf(self.words)
        IN \A k \in DOMAIN variables :
              lexical_get(Deref(self.primary_parent_scope), variables[k].value,
                          self.primary_id, TRUE) = <<>>

\* what holds of the code: the two runs agree when every variable is
\* looked up by the definition that is fetched
DirectVariablesIndependent ==
    (op = "second" /\ NoneLexicallyResolved) =>
        /\ out.first.err = ""
        /\ out.second = out.first

-----------------------------------------------------------------------------
(* Quoted words and words of several fragments *)

Home == <<"H", "O", "M", "E">>

\* the value $HOME/d
HomeData == <<"$">> \o Home \o <<"/", "d">>

QuoteObjects ==
    { Plain(Name("b"), Value("1")),
      Plain(Name("b"), <<Unquoted(<<"1">>), Unquoted(<<"2">>)>>),
      Plain(Name("b"), <<SQuoted(<<"$", "t">>)>>),
      Plain(Name("b"), <<DQuoted(<<"1", " ", "2">>)>>),
      Plain(Name("x"), Ref("b")),
      Plain(Name("x"), <<DQuoted(<<"$", "b">>)>>),
      Plain(Name("x"), <<Unquoted(<<"a", "$", "b">>)>>),
      Plain(Name("x"), <<SQuoted(<<"$", "b">>)>>),
      Plain(Name("x"), <<Unquoted(HomeData)>>),
      Plain(Name("x"), <<DQuoted(HomeData)>>),
      Plain(Name("x"), <<Unquoted(<<"$", "t">>), Unquoted(<<"1">>)>>),
      Plain(Name("x"), <<Unquoted(<<"a", "\\", "$", "b">>)>>) }

QuoteEnvironments ==
    { [n \in {} |-> <<>>], [n \in {Home} |-> <<"/", "r">>],
      [n \in {<<"t">>} |-> <<"2">>] }

InitQuote ==
    /\ master \in {parse(0, m) : m \in SeqsUpTo(QuoteObjects, MaxObjs)}
    /\ sources = <<>>
    /\ env \in QuoteEnvironments
    /\ op = "init"
    /\ args = <<>>
    /\ out = <<>>

\* r = self.resolve_variables(diff_mode), and r.resolve_variables(diff_mode)
\* when the first call returns: r is a customized_copy of self with the new
\* words, in the place of self
ResolveTwice(ref, diff_mode) ==
    /\ op = "init"
    /\ op' = "resolve_twice"
    /\ args' = [diff_mode |-> diff_mode]
    /\ out' = LET self == Deref(ref)
                  Again(first) ==
                      [self |-> self,
                       first |-> first,
                       second |-> IF first.err # "" THEN first
                                  ELSE resolve_variables(
                                          [self EXCEPT !.words = first.words],
                                          diff_mode)]
              IN Again(resolve_variables(self, diff_mode))
    /\ UNCHANGED <<master, sources, env>>

NextQuote ==
    \E ref \in DefinitionRefs, diff_mode \in BOOLEAN : ResolveTwice(ref, diff_mode)

SpecQuote == InitQuote /\ [][NextQuote]_vars

ResolvedOnce == op = "resolve_twice" /\ out.first.err = ""

\* C19: when resolve_variables succeeds on a definition, resolve_variables
\* on its result succeeds too and returns the same words, values and
\* quoting alike.
C19_Idempotent ==
    ResolvedOnce =>
        /\ out.second.err = ""
        /\ out.second.words = out.first.words

\* what holds of the code: the second call changes nothing when the first
\* result has no variable left in a word that is not single-quoted
IdempotentWithoutVariables ==
    (ResolvedOnce /\ VariablesOf(out.first.words) = <<>>) =>
        /\ out.second.err = ""
        /\ out.second.words = out.first.words


\* the words a variable fragment of a word of self stands for
VariableWords(self, fragment) ==
    ResolveVariable(self, fragment, args.diff_mode).words

\* the value of the one double-quoted word that replaces a word: the
\* literal fragments as they are, the words of each variable joined with
\* blanks, all of it concatenated
Stringified(self, fragments) ==
    Flatten([k \in 1..Len(fragments) |->
                IF fragments[k].is_variable
                THEN JoinWith(<<" ">>, WordValues(VariableWords(self, fragments[k])))
                ELSE fragments[k].value])

\* what replaces one word: joined is whether the word becomes one
\* double-quoted word
Replaced(self, word, fragments, joined) ==
    IF word.quote_token = "'" THEN <<word>>
    ELSE IF \A k \in DOMAIN fragments : ~fragments[k].is_variable THEN <<word>>
    ELSE IF joined THEN <<DQuoted(Stringified(self, fragments))>>
    ELSE VariableWords(self, fragments[1])

SeveralWords(self, fragments) ==
    \E k \in DOMAIN fragments :
        fragments[k].is_variable /\ Len(VariableWords(self, fragments[k])) > 1

\* C20 as stated: a word with a variable that expands to several words
\* becomes one double-quoted word, like a quoted word and a word of several
\* fragments
C20_SeveralWordsJoined ==
    ResolvedOnce =>
        out.first.words =
            Flatten([i \in 1..Len(out.self.words) |->
                LET word == out.self.words[i]
                    fragments == variable_substitution_proxy(word).fragments
                IN Replaced(out.self, word, fragments,
                            \/ word.quote_token # ""
                            \/ Len(fragments) > 1
                            \/ SeveralWords(out.self, fragments))])

\* C20: resolve_variables passes a single-quoted word through unchanged;
\* it replaces a word with a variable that is quoted, or that has more than
\* one fragment, by exactly one double-quoted word (the words of each
\* variable joined with blanks, the fragments concatenated); and it
\* replaces an unquoted word that is one variable reference by the words
\* of the variable, one or several.
C20_Stringification ==
    ResolvedOnce =>
        out.first.words =
            Flatten([i \in 1..Len(out.self.words) |->
                LET word == out.self.words[i]
                    fragments == variable_substitution_proxy(word).fragments
                IN Replaced(out.self, word, fragments,
                            word.quote_token # "" \/ Len(fragments) > 1)])

\* $HOME/d with HOME=/r and no definition of HOME: the one double-quoted
\* word "/r/d"
C20_Witness ==
    /\ ResolvedOnce
    /\ ~args.diff_mode
    /\ out.self.words = <<Unquoted(HomeData)>>
    /\ Home \in DOMAIN env
    /\ out.first.words = <<DQuoted(<<"/", "r", "/", "d">>)>>

-----------------------------------------------------------------------------
(* Trees with disabled and template children *)

Templated(object, is_template) == [object EXCEPT !.is_template = is_template]

ExtractObjectsSet ==
    { Plain(Name("a"), Value("1")),
      Multiple(Name("a"), Value("1")),
      Multiple(Name("a"), Value("2")),
      Multiple(Name("a"), PlainNone),
      MultipleOptional(Name("a"), PlainNone),
      Braces(Name("s"), <<Multiple(Name("a"), PlainNone)>>),
      Braces(Name("s"), <<Multiple(Name("a"), Value("2"))>>),
      Disabled(Name("a"), Value("1")),
      definition(Name("a"), Value("1"), TRUE, "None", TRUE, FALSE, NoneS),
      Templated(Multiple(Name("a"), Value("1")), 1),
      Templated(Multiple(Name("a"), Value("1")), -1),
      Templated(Plain(Name("a"), Value("1")), 1),
      Braces(Name("s"), <<Plain(Name("a"), Value("1"))>>),
      scope(Name("s"), <<Plain(Name("a"), Value("1"))>>, TRUE, "None", FALSE, NoneS),
      MultipleBraces(Name("s"), <<Plain(Name("a"), Value("1"))>>),
      Templated(MultipleBraces(Name("s"), <<Plain(Name("a"), Value("1"))>>), 1) }

InitExtract ==
    /\ master \in {parse(0, m) : m \in SeqsUpTo(ExtractObjectsSet, MaxObjs)}
    /\ sources = <<>>
    /\ env = [n \in {} |-> <<>>]
    /\ op = "init"
    /\ args = <<>>
    /\ out = <<>>

\* master.extract()
Extract ==
    /\ op = "init"
    /\ op' = "extract"
    /\ out' = [err |-> "", tree |-> master, value |-> extract(master)]
    /\ UNCHANGED <<master, sources, env, args>>

\* master.fetch(sources=[]).extract()
FetchExtract ==
    /\ op = "init"
    /\ op' = "fetch_extract"
    /\ out' = LET Fetched(r) ==
                      IF r.err # "" THEN [err |-> r.err, tree |-> master, value |-> VCrash]
                      ELSE [err |-> "", tree |-> r.res[1], value |-> extract(r.res[1])]
              IN Fetched(fetch(master, <<>>, FALSE, FALSE))
    /\ UNCHANGED <<master, sources, env, args>>

NextExtract == Extract \/ FetchExtract

SpecExtract == InitExtract /\ [][NextExtract]_vars

Extracted == op \in {"extract", "fetch_extract"} /\ out.err = "" /\ out.value # VCrash

\* the children of that name that extract does not skip
KeptNamed(objs, name) ==
    SelectSeq(objs, LAMBDA object : object.name = name /\ object.is_template >= 0)

IsPlaceholder(object) == object.is_disabled \/ object.is_template > 0

\* C21: scope.extract skips a child with is_template < 0 and takes no value
\* from a disabled child or a child with is_template > 0.  A name of which
\* every child is skipped is no attribute; a name of multiple children that
\* are all placeholders extracts to an empty list; a name whose children
\* are all placeholders, the last of them not multiple, extracts to None.
C21_Placeholders ==
    Extracted =>
        \A name \in {out.tree.objects[i].name : i \in DOMAIN out.tree.objects} :
            LET kept == KeptNamed(out.tree.objects, name)
            IN /\ kept = <<>> => name \notin DOMAIN out.value.attrs
               /\ (kept # <<>> /\ \A k \in DOMAIN kept : IsPlaceholder(kept[k])) =>
                     IF \A k \in DOMAIN kept : kept[k].multiple
                     THEN out.value.attrs[name] = VList(kept[1].optional, <<>>)
                     ELSE ~kept[Len(kept)].multiple =>
                             out.value.attrs[name] = VNone

\* the master "a = None .multiple=True" fetched with no source: the result
\* holds the template of a only, and a extracts to []
C21_Witness ==
    /\ op = "fetch_extract" /\ out.err = ""
    /\ Len(master.objects) = 1
    /\ master.objects[1].multiple /\ master.objects[1].is_definition
    /\ master.objects[1].words = PlainNone
    /\ master.objects[1].optional = "None"
    /\ Len(out.tree.objects) = 1
    /\ out.tree.objects[1].is_template = 1
    /\ out.value = VScope(SetAttr(NoAttrs, Name("a"), VList("None", <<>>)))


\* the lists of a value, the ones inside its scope_extracts included
RECURSIVE ListsOf(_)
ListsOf(value) ==
    IF value.t = "scope_extract_list" THEN {value}
    ELSE IF value.t = "scope_extract"
    THEN UNION {ListsOf(value.attrs[n]) : n \in DOMAIN value.attrs}
    ELSE {}

\* C22 as stated: a list that holds a value other than None does not start
\* with None
C22_NoLeadingNone ==
    Extracted =>
        \A list \in ListsOf(out.value) :
            (\E k \in DOMAIN list.items : list.items[k] # VNone) =>
                list.items[1] # VNone

\* the values that the multiple definitions of one name, all in one scope,
\* put in their list: those of the occurrences that are neither skipped nor
\* placeholders, in declaration order, without None where optional is True
OccurrenceValues(kept) ==
    LET taken == SelectSeq(kept, LAMBDA object :
                     /\ ~IsPlaceholder(object)
                     /\ ~(is_plain_none(object.words) /\ object.optional = "True"))
    IN [k \in 1..Len(taken) |->
          IF is_plain_none(taken[k].words) THEN VNone
          ELSE VStrings(WordValues(taken[k].words))]

AllMultipleDefinitions(kept) ==
    /\ kept # <<>>
    /\ \A k \in DOMAIN kept : kept[k].is_definition /\ kept[k].multiple

\* C22: for a name whose occurrences in a scope are multiple definitions,
\* scope.extract appends the value of each active occurrence to one list in
\* declaration order, except a None of an occurrence with optional = True;
\* a None that is appended stays where it is when values follow it.  When
\* the lists of two scopes of one name are joined, the None items of the
\* second are left out and one None at the head of a joined list of more
\* than one item is dropped.
C22_AppendInOrder ==
    Extracted =>
        /\ \A name \in {out.tree.objects[i].name : i \in DOMAIN out.tree.objects} :
              LET kept == KeptNamed(out.tree.objects, name)
              IN AllMultipleDefinitions(kept) =>
                    out.value.attrs[name].items = OccurrenceValues(kept)
        /\ LET kept == KeptNamed(out.tree.objects, Name("s"))
               first == KeptNamed(kept[1].objects, Name("a"))
               second == KeptNamed(kept[2].objects, Name("a"))
               all == OccurrenceValues(first) \o NotNoneItems(OccurrenceValues(second))
           IN (/\ Len(kept) = 2
               /\ \A k \in 1..2 : ~kept[k].is_definition /\ ~kept[k].multiple
                                  /\ ~IsPlaceholder(kept[k])
               /\ AllMultipleDefinitions(first) /\ AllMultipleDefinitions(second)) =>
                    out.value.attrs[Name("s")].attrs[Name("a")].items =
                        IF Len(all) > 1 /\ all[1] = VNone THEN Tail(all) ELSE all

\* "a = None" and "a = 2", both multiple: the list is [None, ["2"]]
C22_Witness ==
    /\ op = "extract" /\ out.err = ""
    /\ Len(out.tree.objects) = 2
    /\ AllMultipleDefinitions(out.tree.objects)
    /\ Extracted
    /\ Name("a") \in DOMAIN out.value.attrs
    /\ out.value.attrs[Name("a")].items = <<VNone, VStrings(<<Name("2")>>)>>

-----------------------------------------------------------------------------
(* format along a master with multiple scopes *)

FormatObjectsSet ==
    { MultipleBraces(Name("s"), <<Plain(Name("a"), Value("1"))>>),
      MultipleBraces(Name("s"), <<Plain(Name("a"), Value("2"))>>),
      scope(Name("s"), <<Plain(Name("a"), Value("1"))>>, TRUE, "None", TRUE, NoneS),
      MultipleBraces(Name("t"), <<Plain(Name("a"), Value("1"))>>),
      Braces(Name("s"), <<Plain(Name("a"), Value("1"))>>),
      Plain(Name("a"), Value("1")) }

InitFormat ==
    /\ master \in {parse(0, m) : m \in SeqsUpTo(FormatObjectsSet, MaxObjs)}
    /\ sources \in {<<parse(1, m)>> : m \in SeqsUpTo(FormatObjectsSet, MaxObjs)}
    /\ env = [n \in {} |-> <<>>]
    /\ op = "init"
    /\ args = <<>>
    /\ out = <<>>

\* master.format(python_object=source.extract())
Format ==
    /\ op = "init"
    /\ op' = "format"
    /\ out' = LET Formatted(python_object) ==
                      IF python_object = VCrash
                      THEN [err |-> "crash", python_object |-> VCrash, node |-> master]
                      ELSE [err |-> format(master, python_object).err,
                            python_object |-> python_object,
                            node |-> format(master, python_object).node]
              IN Formatted(extract(sources[1]))
    /\ UNCHANGED <<master, sources, env, args>>

NextFormat == Format

SpecFormat == InitFormat /\ [][NextFormat]_vars

FormatReturned == op = "format" /\ out.err = ""

\* the names whose first active child in the master is a multiple scope
MultipleScopeNames ==
    { master.objects[i].name : i \in { k \in DOMAIN master.objects :
          /\ ~master.objects[k].is_disabled
          /\ FirstActiveNamed(master.objects, master.objects[k].name) = k
          /\ master.objects[k].multiple /\ ~master.objects[k].is_definition } }

Named(objs, name) == SelectSeq(objs, LAMBDA object : object.name = name)

\* C23: for each name whose first active master child is a multiple scope,
\* scope.format emits nothing when the value has no such attribute, one copy
\* of that child with is_template = 1 when the list is empty, and else one
\* copy of it with is_template = -1 followed by that child formatted with
\* each element of the list, in list order; nothing else of that name is
\* emitted, whatever same-named siblings follow in the master.
C23_MultipleScopeFormat ==
    FormatReturned =>
        \A name \in MultipleScopeNames :
            LET object == master.objects[FirstActiveNamed(master.objects, name)]
                emitted == Named(out.node.objects, name)
            IN IF name \notin DOMAIN out.python_object.attrs THEN emitted = <<>>
               ELSE LET items == out.python_object.attrs[name].items
                    IN IF items = <<>>
                       THEN emitted = <<[copy(object) EXCEPT !.is_template = 1]>>
                       ELSE emitted =
                               <<[copy(object) EXCEPT !.is_template = -1]>>
                               \o [k \in 1..Len(items) |-> format(object, items[k]).node]

\* a master with two multiple scopes named s and a value with two elements
\* that differ: one template and two realized nodes, in the order of the list
C23_Witness ==
    /\ FormatReturned
    /\ Len(master.objects) = 2
    /\ \A k \in 1..2 : master.objects[k].name = Name("s") /\ master.objects[k].multiple
                       /\ ~master.objects[k].is_disabled
    /\ Name("s") \in DOMAIN out.python_object.attrs
    /\ Len(out.python_object.attrs[Name("s")].items) = 2
    /\ out.python_object.attrs[Name("s")].items[1]
       # out.python_object.attrs[Name("s")].items[2]
    /\ Len(out.node.objects) = 3
    /\ out.node.objects[1].is_template = -1
    /\ out.node.objects[2].objects[1].words # out.node.objects[3].objects[1].words

-----------------------------------------------------------------------------
(* What a diff holds *)

\* every definition of a diff says something else than the master child of
\* its name, and every scope of it has children; of the master children of
\* one name the first counts when it is multiple, and else any of them
RECURSIVE DiffMinimal(_, _)
DiffMinimal(master_objects, result_objects) ==
    \A i \in DOMAIN result_objects :
        LET object == result_objects[i]
            named == { k \in DOMAIN master_objects :
                         /\ ~master_objects[k].is_disabled
                         /\ master_objects[k].name = object.name }
            compared == { k \in named :
                            \/ ~master_objects[FirstActiveNamed(master_objects,
                                                                object.name)].multiple
                            \/ k = FirstActiveNamed(master_objects, object.name) }
        IN /\ named # {}
           /\ \E k \in compared :
                 LET master_object == master_objects[k]
                 IN IF object.is_definition
                    THEN /\ master_object.is_definition
                         /\ Canonical(master_object, <<object>>)
                            # Canonical(master_object, <<>>)
                    ELSE /\ ~master_object.is_definition
                         /\ object.objects # <<>>
                         /\ DiffMinimal(master_object.objects, object.objects)

\* C24: the result of scope.fetch with diff=True holds a definition only
\* when its canonical string form differs from that of the master child of
\* its name, and holds no scope without children at any depth below the
\* root, for non-multiple and multiple scopes alike.
C24_DiffMinimal ==
    FetchReturned(TRUE) => DiffMinimal(master.objects, out.res[1].objects)

\* a multiple scope of the master, one source scope that repeats it and
\* one that changes it: the diff holds the changed one only
C24_Witness ==
    /\ FetchReturned(TRUE)
    /\ Len(master.objects) = 1
    /\ ~master.objects[1].is_definition /\ master.objects[1].multiple
    /\ Len(SourceChildren) = 2
    /\ \A k \in 1..2 : ~SourceChildren[k].is_definition
    /\ SourceChildren[1].objects[1].words = master.objects[1].objects[1].words
    /\ SourceChildren[2].objects[1].words # master.objects[1].objects[1].words
    /\ Len(out.res[1].objects) = 1
    /\ out.res[1].objects[1].objects[1].words = SourceChildren[2].objects[1].words


-----------------------------------------------------------------------------
(* Masters with an alias *)

Aliased(object, alias) == [object EXCEPT !.alias = alias]

\* a definition and a scope, each with and without the alias t, and a
\* definition with the alias inside a scope
AliasMasters ==
    { <<Plain(Name("a"), Value("1"))>>,
      <<Aliased(Plain(Name("a"), Value("1")), Name("t"))>>,
      <<Braces(Name("s"), <<Plain(Name("a"), Value("1"))>>)>>,
      <<Aliased(Braces(Name("s"), <<Plain(Name("a"), Value("1"))>>), Name("t"))>>,
      <<Braces(Name("s"), <<Aliased(Plain(Name("a"), Value("1")), Name("t"))>>)>> }

AliasSourceObjects ==
    {Plain(Name(n), Value("2")) : n \in {"a", "t"}}
    \cup {Braces(Name(n), <<Plain(Name(m), Value("2"))>>) :
            n \in {"s", "t", "x"}, m \in {"a", "t"}}
    \cup {Braces(Name("x"), <<Braces(Name("s"), <<Plain(Name("a"), Value("2"))>>)>>)}

InitAlias ==
    /\ master \in {parse(0, m) : m \in AliasMasters}
    /\ sources \in {<<parse(1, s)>> : s \in SeqsUpTo(AliasSourceObjects, MaxObjs)}
    /\ env = [n \in {} |-> <<>>]
    /\ op = "init"
    /\ args = <<>>
    /\ out = <<>>

NextAlias ==
    \E diff \in BOOLEAN, skip_incompatible_objects \in BOOLEAN :
        Fetch(diff, skip_incompatible_objects)

SpecAlias == InitAlias /\ [][NextAlias]_vars

\* the source definitions fetch_value was called on: their tmp is True
FetchedSourceDefinitions == {Deref(ref) : ref \in out.used}

MasterDefinitionSet ==
    {MasterDefinitions(master.objects, <<>>)[i] :
        i \in DOMAIN MasterDefinitions(master.objects, <<>>)}

\* the source node is at the master definition's path or at its alias path
AtPathOrAlias(source, md) ==
    \/ full_path(source) = JoinWith(Dot, md.path)
    \/ full_path(source) = alias_path(md.object)

\* C25: a source definition is fetched against a master definition only if
\* its full dotted path is the master definition's full path or its alias
\* path; a same-named definition in a differently named source scope is not
\* fetched, whether the master declares an alias or not.
C25_MatchByPath ==
    (op = "fetch" /\ out.err = "") =>
        \A source \in FetchedSourceDefinitions :
            \E md \in MasterDefinitionSet : AtPathOrAlias(source, md)

RECURSIVE HasAlias(_)
HasAlias(objs) ==
    \E i \in DOMAIN objs : objs[i].alias # NoneS \/ HasAlias(objs[i].objects)

\* what holds of the code: without an alias in the master, sources match by
\* path only
MatchByPathWithoutAlias ==
    (op = "fetch" /\ out.err = "" /\ ~HasAlias(master.objects)) =>
        \A source \in FetchedSourceDefinitions :
            \E md \in MasterDefinitionSet :
                full_path(source) = JoinWith(Dot, md.path)

\* a source definition at the alias path is fetched
AliasPathFetched ==
    /\ op = "fetch" /\ out.err = ""
    /\ \E source \in FetchedSourceDefinitions :
          \E md \in MasterDefinitionSet :
             /\ full_path(source) = alias_path(md.object)
             /\ full_path(source) # JoinWith(Dot, md.path)


-----------------------------------------------------------------------------
(* What a fetch writes in place.  The assignments of scope.fetch and of what *)
(* it calls go to copies, except source.tmp = True in fetch_value and        *)
(* substitution_source.tmp = True in resolve_variables: out.used holds the   *)
(* objects these two are applied to.                                         *)

InMaster(ref) == ref[1] = 0

\* the object, or a scope around it, has an active multiple sibling of its
\* name: fetch reads such an object of the master as one more source
UnderSiblingOfMultiple(ref) ==
    \E j \in 2..Len(ref) :
        LET objs == Deref(SubSeq(ref, 1, j - 1)).objects
        IN \E m \in DOMAIN objs :
              /\ m # ref[j]
              /\ objs[m].name = objs[ref[j]].name
              /\ objs[m].multiple /\ ~objs[m].is_disabled

-----------------------------------------------------------------------------
(* A master diffed against itself *)

SelfDiffed == op = "fetch_self" /\ args.diff /\ out.err = ""

RECURSIVE NoDollar(_)
NoDollar(objs) ==
    \A i \in DOMAIN objs :
        /\ \A w \in DOMAIN objs[i].words : "$" \notin
              {objs[i].words[w].value[c] : c \in DOMAIN objs[i].words[w].value}
        /\ NoDollar(objs[i].objects)

\* at every depth, active children of one scope that share a name are all
\* multiple
RECURSIVE OnlyMultipleDeclaredTwice(_)
OnlyMultipleDeclaredTwice(objs) ==
    /\ \A i, j \in DOMAIN objs :
          (i < j /\ objs[i].name = objs[j].name
           /\ ~objs[i].is_disabled /\ ~objs[j].is_disabled) =>
              objs[i].multiple /\ objs[j].multiple
    /\ \A i \in DOMAIN objs : OnlyMultipleDeclaredTwice(objs[i].objects)

-----------------------------------------------------------------------------
(* The shape of a fetch result *)

ShapeMasters ==
    { <<Plain(Name("a"), Value("1")), Plain(Name("b"), Value("2"))>>,
      <<Disabled(Name("a"), Value("1")), Plain(Name("b"), Value("2"))>>,
      <<Deprecated(Name("a"), Value("1")), Plain(Name("b"), Value("2"))>>,
      <<Multiple(Name("a"), Value("1")), Multiple(Name("b"), Value("2"))>>,
      <<MultipleBraces(Name("s"), <<Disabled(Name("a"), Value("1")),
                                    Plain(Name("b"), Value("2"))>>)>>,
      <<MultipleBraces(Name("s"), <<Plain(Name("a"), Value("1")),
                                    Plain(Name("b"), Value("2"))>>)>>,
      <<Braces(Name("s"), <<Disabled(Name("a"), Value("1")),
                            Plain(Name("b"), Value("2"))>>),
        Plain(Name("b"), Value("2"))>>,
      <<Braces(Name("s"), <<Plain(Name("a"), Value("1"))>>),
        Braces(Name("s"), <<Plain(Name("b"), Value("2"))>>)>> }

\* x is a name no master has
ShapeSourceObjects ==
    {Plain(Name("a"), Value("2")), Plain(Name("b"), Value("1")),
     Plain(Name("x"), Value("3"))}
    \cup {Braces(Name("s"), <<Plain(Name(n), Value("3"))>>) : n \in {"a", "b", "x"}}

InitShape ==
    /\ master \in {parse(0, m) : m \in ShapeMasters}
    /\ sources \in {<<parse(1, s)>> : s \in SeqsUpTo(ShapeSourceObjects, MaxObjs)}
    /\ env = [n \in {} |-> <<>>]
    /\ op = "init"
    /\ args = <<>>
    /\ out = <<>>

NextShape ==
    \E diff \in BOOLEAN, skip_incompatible_objects \in BOOLEAN :
        Fetch(diff, skip_incompatible_objects)

SpecShape == InitShape /\ [][NextShape]_vars

\* the master children a fetch goes through, in declaration order: the
\* active ones, but for those after a multiple first child of their name
MasterChildren(objs) ==
    SelectSeq([i \in DOMAIN objs |-> i],
              LAMBDA i : /\ ~objs[i].is_disabled
                         /\ \/ FirstActiveNamed(objs, objs[i].name) = i
                            \/ ~objs[FirstActiveNamed(objs, objs[i].name)].multiple)

\* result_objs is one group per master child, in the master's order; a
\* group holds nodes of the master child's name and kind, none disabled, and
\* in a non-diff fetch the group of a child that is not deprecated is not
\* empty.  With copies TRUE, the first node of the group of a multiple scope
\* in a non-diff fetch is the copy of the master child, with the master
\* child's own children; every other scope has the shape of its master
\* child, in turn.
RECURSIVE Grouped(_, _, _, _, _)
Grouped(result_objs, master_objs, children, diff, copies) ==
    IF children = <<>> THEN result_objs = <<>>
    ELSE LET master_object == master_objs[Head(children)]
             IsCopy(i) == copies /\ ~diff /\ i = 1 /\ master_object.multiple
             ResultOf(i) ==
                LET r == result_objs[i]
                IN /\ r.name = master_object.name
                   /\ r.is_definition = master_object.is_definition
                   /\ ~r.is_disabled
                   /\ is_scope(r) =>
                        IF IsCopy(i) THEN r.objects = master_object.objects
                        ELSE Grouped(r.objects, master_object.objects,
                                     MasterChildren(master_object.objects),
                                     diff, copies)
         IN \E n \in 0..Len(result_objs) :
              /\ (~diff /\ ~master_object.deprecated) => n >= 1
              /\ \A i \in 1..n : ResultOf(i)
              /\ Grouped(SubSeq(result_objs, n + 1, Len(result_objs)),
                         master_objs, Tail(children), diff, copies)

\* C28 as the specification states it: at every depth the children of a
\* fetch result carry names of active master children, never a name only
\* the source has and never a disabled master child, grouped by master child
\* in the master's declaration order; in a non-diff fetch every active
\* master child that is not deprecated is there.
C28_ResultShape ==
    (op = "fetch" /\ out.err = "") =>
        Grouped(out.res[1].objects, master.objects,
                MasterChildren(master.objects), args.diff, FALSE)

\* C28, amended: the same, outside the copy of a multiple master scope that
\* a non-diff fetch puts before the scope's entries: the copy has the
\* master scope's own children, disabled ones included.
C28_ResultShapeOutsideCopies ==
    (op = "fetch" /\ out.err = "") =>
        Grouped(out.res[1].objects, master.objects,
                MasterChildren(master.objects), args.diff, TRUE)

\* a source with a name of its own and the master's names in reverse order
\* was fetched
C28_Witness ==
    /\ op = "fetch" /\ out.err = "" /\ ~args.diff
    /\ Len(master.objects) = 2 /\ Len(sources[1].objects) = 2
    /\ sources[1].objects[1].name = Name("x")
    /\ sources[1].objects[2].name = master.objects[2].name
    /\ master.objects[1].is_disabled
    /\ Len(out.res[1].objects) = 1
    /\ out.res[1].objects[1].words = sources[1].objects[2].words


-----------------------------------------------------------------------------
(* The calls of resolve_variables, one step at a time.  out.stack is the    *)
(* call stack: a frame holds the definition and the number of the variable  *)
(* fragment its loop is at.                                                  *)

CallObjects ==
    { Plain(Name("a"), Value("1")), Plain(Name("a"), Ref("a")),
      Plain(Name("a"), Ref("b")), Plain(Name("b"), Ref("a")),
      Plain(Name("b"), Ref("a") \o Ref("a")),
      Plain(Name("c"), Ref("b")),
      Dotted(Name("s"), Plain(Name("b"), Ref("a"))),
      Braces(Name("s"), <<Plain(Name("a"), Ref("b")), Plain(Name("b"), Ref("a"))>>),
      Braces(Name("a"), <<Plain(Name("b"), Ref("a"))>>) }

CallEnvironments == { [n \in {} |-> <<>>], [n \in {<<"b">>} |-> <<"2">>] }

InitCall ==
    /\ master \in {parse(0, m) : m \in SeqsUpTo(CallObjects, MaxObjs)}
    /\ sources = <<>>
    /\ env \in CallEnvironments
    /\ op = "init"
    /\ args = <<>>
    /\ out = <<>>

CallFrame(ref, diff_mode) ==
    [ref |-> ref, fragment |-> 1, diff_mode |-> diff_mode]

\* what the lookups of a definition return, one entry per variable
\* fragment: lexical_get reads the tree only, so what each of its calls
\* returns is known when resolve_variables starts
Lookups(ref) ==
    LET self == Deref(ref)
        variables == VariablesOf(self.words)
        Looked(v, substitution_source) ==
            [found |-> substitution_source # <<>>,
             is_definition |-> substitution_source # <<>>
                               /\ substitution_source[1].is_definition,
             ref |-> IF substitution_source # <<>>
                     THEN substitution_source[1].oid ELSE NoRef,
             in_environ |-> EnvGet(v.value) # NoneS]
    IN [k \in DOMAIN variables |->
          Looked(variables[k],
                 IF self.primary_parent_scope = NoRef THEN <<>>
                 ELSE lexical_get(Deref(self.primary_parent_scope),
                                  variables[k].value, self.primary_id, TRUE))]

\* the frame on top of the stack, its variables and the source of the one
\* at hand
Top == out.stack[Len(out.stack)]
TopVariables == out.lookups[Top.ref]
TopSource == TopVariables[Top.fragment]

Advanced(stack) ==
    [stack EXCEPT ![Len(stack)].fragment = @ + 1]

\* self.resolve_variables(diff_mode) is called
CallResolve(ref, diff_mode) ==
    /\ op = "init"
    /\ op' = "resolving"
    /\ args' = [ref |-> ref, diff_mode |-> diff_mode]
    /\ out' = [stack |-> <<CallFrame(ref, diff_mode)>>, depth |-> 1, err |-> "",
               lookups |-> [r \in DefinitionRefs |-> Lookups(r)]]
    /\ UNCHANGED <<master, sources, env>>

\* substitution_source.resolve_variables() is called: the source is a
\* definition.  A stack deeper than the tree has nodes holds a definition
\* twice; no frame is added to it.
Recurse ==
    /\ op = "resolving"
    /\ Top.fragment <= Len(TopVariables)
    /\ TopSource.found /\ TopSource.is_definition
    /\ Len(out.stack) <= NodeCountObjs(master.objects)
    /\ out' = [out EXCEPT !.stack = Append(@, CallFrame(TopSource.ref, FALSE)),
                          !.depth = IF Len(out.stack) + 1 > @
                                    THEN Len(out.stack) + 1 ELSE @]
    /\ UNCHANGED <<master, sources, env, op, args>>

\* the source is a scope: RuntimeError
NotADefinition ==
    /\ op = "resolving"
    /\ Top.fragment <= Len(TopVariables)
    /\ TopSource.found /\ ~TopSource.is_definition
    /\ op' = "done"
    /\ out' = [out EXCEPT !.stack = <<>>, !.err = "Not a definition"]
    /\ UNCHANGED <<master, sources, env, args>>

\* no source: the placeholder in diff mode, else os.environ, else RuntimeError
FromEnvironment ==
    /\ op = "resolving"
    /\ Top.fragment <= Len(TopVariables)
    /\ ~TopSource.found
    /\ IF Top.diff_mode \/ TopSource.in_environ
       THEN /\ out' = [out EXCEPT !.stack = Advanced(@)]
            /\ op' = op
       ELSE /\ out' = [out EXCEPT !.stack = <<>>, !.err = "Undefined variable"]
            /\ op' = "done"
    /\ UNCHANGED <<master, sources, env, args>>

\* the loops are over: customized_copy(words=new_words) is returned to the
\* caller, which goes on with its next fragment
ReturnWords ==
    /\ op = "resolving"
    /\ Top.fragment > Len(TopVariables)
    /\ LET popped == SubSeq(out.stack, 1, Len(out.stack) - 1)
       IN IF popped = <<>>
          THEN /\ out' = [out EXCEPT !.stack = <<>>]
               /\ op' = "done"
          ELSE /\ out' = [out EXCEPT !.stack = Advanced(popped)]
               /\ op' = op
    /\ UNCHANGED <<master, sources, env, args>>

NextCall ==
    \/ \E ref \in DefinitionRefs, diff_mode \in BOOLEAN : CallResolve(ref, diff_mode)
    \/ Recurse
    \/ NotADefinition
    \/ FromEnvironment
    \/ ReturnWords

SpecCall == InitCall /\ [][NextCall]_vars

\* a call that was made goes on until it returns or raises
FairCall == SpecCall /\ WF_vars(Recurse \/ NotADefinition \/ FromEnvironment \/ ReturnWords)

\* every node of the tree has a primary_id, and they increase in
\* declaration order
RECURSIVE Numbered(_)
Numbered(objs) ==
    \A i \in DOMAIN objs :
        /\ objs[i].primary_id # NoId
        /\ objs[i].primary_id > Deref(objs[i].primary_parent_scope).primary_id
        /\ \A j \in DOMAIN objs : i < j => objs[i].primary_id < objs[j].primary_id
        /\ Numbered(objs[i].objects)

\* C29: on a tree whose nodes have distinct primary_ids increasing in
\* declaration order, a call of resolve_variables on a definition comes to
\* its end, with words or with an error.
C29_Terminates ==
    (op = "resolving" /\ Numbered(master.objects)) ~> (op = "done")

\* every definition on the call stack has a smaller primary_id than the one
\* that refers to it
SourcesDecrease ==
    op = "resolving" =>
        \A i \in 1..(Len(out.stack) - 1) :
            Deref(out.stack[i + 1].ref).primary_id
            < Deref(out.stack[i].ref).primary_id

\* the call returned after it went into a definition that refers back to
\* the one it came from: a = $b before b = $a, resolved from b
C29_Witness ==
    /\ op = "done" /\ out.err = "" /\ out.depth = 2
    /\ Numbered(master.objects)
    /\ Len(master.objects) = 2
    /\ master.objects[1].words = Ref("b") /\ master.objects[1].name = Name("a")
    /\ master.objects[2].words = Ref("a") /\ master.objects[2].name = Name("b")
    /\ args.ref = <<0, 2>>


-----------------------------------------------------------------------------
(* The include stack and the open parse calls *)

\* the normalized paths of the files whose parse call is open, outermost
\* first
RECURSIVE OpenFiles(_)
OpenFiles(frames) ==
    IF frames = <<>> THEN <<>>
    ELSE (IF Head(frames).kind = "file"
          THEN <<FilePaths[Head(frames).node.oid[1]]>> ELSE <<>>)
         \o OpenFiles(Tail(frames))

ParsedWithIncludes == op # "init" /\ out.frames = <<>> /\ out.err = ""

\* C30: a parse call with process_includes pushes the normalized path of its
\* file once and pops it when it returns: while calls are open the include
\* stack holds the paths of the open parse calls, in order; after a
\* successful outermost call it is what it was before, empty; and a cycle is
\* reported only for a file whose parse call is open, not for one that was
\* included before and has returned.
C30_StackDiscipline ==
    /\ Running => out.include_stack = OpenFiles(out.frames)
    /\ ParsedWithIncludes => out.include_stack = <<>>
    /\ out.err = "Include dependency cycle" =>
          /\ out.chain # <<>>
          /\ OnStack(Last(out.chain), SubSeq(out.chain, 1, Len(out.chain) - 1))
          /\ SubSeq(out.chain, 1, Len(out.chain) - 1) = out.include_stack

\* a.phil includes b.phil twice, one statement after the other, and the run
\* ends well with the objects of b.phil twice
C30_Witness ==
    /\ ParsedWithIncludes
    /\ args.file_name = <<"a">>
    /\ Len(sources[1].objects) = 2
    /\ \A i \in 1..2 :
          /\ sources[1].objects[i].name = IncludeName
          /\ sources[1].objects[i].words
             = Include(FileType, <<".", ".", "/", "d", "/", "b">>).words
    /\ Len(sources[2].objects) = 1
    /\ sources[2].objects[1].name = Name("x")
    /\ Len(out.result[1].objects) = 2
    /\ \A i \in 1..2 : out.result[1].objects[i].name = Name("x")

=============================================================================
